---- MODULE Spec2Model ----
(***************************************************************************)
(* Station Output: shift-hour bucketing, aggregation and manager           *)
(* corrections (src/app.py, src/admin_app.py).                             *)
(*                                                                         *)
(* Instants are whole minutes.  A UTC instant t counts the minutes since   *)
(* 00:00 UTC of calendar day 0; a local (America/Chicago) datetime is the  *)
(* wall-clock minute count since 00:00 local of day 0.  Day 0 is the last  *)
(* day of standard time (UTC-6); daylight time (UTC-5) starts at 02:00     *)
(* local of day 1.  Text is a sequence of one-character strings.           *)
(***************************************************************************)
EXTENDS Integers, Sequences, FiniteSets, TLC

VARIABLES
    now,          \* the system clock, a UTC instant
    events,       \* table Event: set of rows [id, station, role, stamp, kind, ts_utc]
    reasons,      \* table ReasonEvent: set of rows [id, station, role, stamp, reason, ts_utc]
    admin_pass,   \* ADMIN_PASS of the environment (<<>>: not set)
    admin_until,  \* session["admin_until"] of the manager's browser (<<>>: absent)
    last,         \* the last request served and its response
    flight        \* the tap requests served step by step, in the order they began

vars == <<now, events, reasons, admin_pass, admin_until, last, flight>>

----------------------------------------------------------------------------
(* Text *)

Digits == {"0", "1", "2", "3", "4", "5", "6", "7", "8", "9"}

DigitChars == <<"0", "1", "2", "3", "4", "5", "6", "7", "8", "9">>

DigitValue(c) == CHOOSE v \in 0..9 : DigitChars[v + 1] = c

Empty == <<>>

T_order == <<"o", "r", "d", "e", "r">>

T_reject == <<"r", "e", "j", "e", "c", "t">>

T_muda == <<"m", "u", "d", "a">>

T_Bathroom == <<"B", "a", "t", "h", "r", "o", "o", "m">>

T_Break == <<"B", "r", "e", "a", "k">>

T_SystemSlow == <<"S", "y", "s", "t", "e", "m", " ", "S", "l", "o", "w">>

T_Lunch == <<"L", "u", "n", "c", "h">>

T_reasonPrefix == <<"r", "e", "a", "s", "o", "n", ":">>

T_add == <<"a", "d", "d">>

T_remove == <<"r", "e", "m", "o", "v", "e">>

T_Shipper == <<"S", "h", "i", "p", "p", "e", "r">>

T_Verifier1 == <<"V", "e", "r", "i", "f", "i", "e", "r", " ", "1">>

T_Verifier2 == <<"V", "e", "r", "i", "f", "i", "e", "r", " ", "2">>

T_BTEn1 == <<"B", "T", "E", "n", "-", "1">>

T_BTEn2 == <<"B", "T", "E", "n", "-", "2">>

T_1234 == <<"1", "2", "3", "4">>

T_5678 == <<"5", "6", "7", "8">>

T_secret == <<"s", "3", "c", "r", "3", "t">>

T_wrong == <<"w", "r", "o", "n", "g">>

REASONS == <<T_Bathroom, T_Break, T_SystemSlow>>

Range(s) == {s[i] : i \in 1..Len(s)}

\* str.strip(): leading and trailing blanks removed
RECURSIVE LStrip(_)
LStrip(s) == IF s # <<>> /\ Head(s) = " " THEN LStrip(Tail(s)) ELSE s

RECURSIVE RStrip(_)
RStrip(s) ==
    IF s # <<>> /\ s[Len(s)] = " " THEN RStrip(SubSeq(s, 1, Len(s) - 1)) ELSE s

Strip(s) == RStrip(LStrip(s))

\* str.lstrip("0")
RECURSIVE LStrip0(_)
LStrip0(s) == IF s # <<>> /\ Head(s) = "0" THEN LStrip0(Tail(s)) ELSE s

\* str.startswith(p)
StartsWith(s, p) == Len(s) >= Len(p) /\ SubSeq(s, 1, Len(p)) = p

\* str.isdigit()
IsDigit(s) == s # <<>> /\ \A i \in 1..Len(s) : s[i] \in Digits

RECURSIVE DigitsValue(_)
DigitsValue(s) ==
    IF s = <<>> THEN 0
    ELSE 10 * DigitsValue(SubSeq(s, 1, Len(s) - 1)) + DigitValue(s[Len(s)])

\* int(s): an optional sign, then digits; anything else raises ValueError
IntParses(s) ==
    LET t == Strip(s)
        u == IF t # <<>> /\ Head(t) \in {"+", "-"} THEN Tail(t) ELSE t
    IN  IsDigit(u)

IntValue(s) ==
    LET t == Strip(s)
    IN  IF Head(t) = "-" THEN 0 - DigitsValue(Tail(t))
        ELSE IF Head(t) = "+" THEN DigitsValue(Tail(t))
        ELSE DigitsValue(t)

----------------------------------------------------------------------------
(* Clock and time zone *)

MinutesPerHour == 60

MinutesPerDay == 1440

SHIFT_START_HOUR == 5

SHIFT_END_HOUR == 19

SESSION_HOURS == 2

\* America/Chicago: UTC-6 in standard time, UTC-5 in daylight time
StdOffset == -360

DstOffset == -300

\* the spring-forward transition: 02:00 standard time of day 1 = 08:00 UTC
DstStartUtc == MinutesPerDay + 8 * MinutesPerHour

\* ZoneInfo.utcoffset of a UTC instant (fromutc)
OffsetAtUtc(t) == IF t >= DstStartUtc THEN DstOffset ELSE StdOffset

\* ZoneInfo.utcoffset of a wall-clock time (fold = 0): a wall time in the
\* skipped hour 02:00-03:00 keeps the offset from before the transition
OffsetAtWall(w) == IF w >= DstStartUtc + DstOffset THEN DstOffset ELSE StdOffset

\* dt_utc.replace(tzinfo=UTC).astimezone(TZ)
LocalFromUtc(t) == t + OffsetAtUtc(t)

utc_from_local(w) == w - OffsetAtWall(w)

now_local(t) == LocalFromUtc(t)

\* datetime.date()
DateOf(w) == w \div MinutesPerDay

\* a number below 100 as two digits ("%I", "%M")
TwoDigits(n) == <<DigitChars[(n \div 10) + 1], DigitChars[(n % 10) + 1]>>

\* strftime("%I:%M %p").lstrip("0")
fmt_ampm(w) ==
    LET h   == (w % MinutesPerDay) \div MinutesPerHour
        m   == w % MinutesPerHour
        h12 == IF h % 12 = 0 THEN 12 ELSE h % 12
    IN  LStrip0(TwoDigits(h12) \o <<":">> \o TwoDigits(m)
                \o <<" ", IF h < 12 THEN "A" ELSE "P", "M">>)

shift_bounds_local(day) ==
    <<day * MinutesPerDay + SHIFT_START_HOUR * MinutesPerHour,
      day * MinutesPerDay + SHIFT_END_HOUR * MinutesPerHour>>

\* a loop that runs while cur <= end: one window past the end of the shift
RECURSIVE HourWindowsFrom_Inclusive(_, _)
HourWindowsFrom_Inclusive(cur, end) ==
    IF cur <= end
    THEN <<<<cur, cur + MinutesPerHour>>>>
         \o HourWindowsFrom_Inclusive(cur + MinutesPerHour, end)
    ELSE <<>>

\* the loop of fixed_hour_labels: the windows <<cur, nxt>> it steps through
RECURSIVE HourWindowsFrom(_, _)
HourWindowsFrom(cur, end) ==
    IF cur < end
    THEN <<<<cur, cur + MinutesPerHour>>>> \o HourWindowsFrom(cur + MinutesPerHour, end)
    ELSE <<>>

HourWindows(day) ==
    HourWindowsFrom(shift_bounds_local(day)[1], shift_bounds_local(day)[2])

\* f"{fmt_ampm(cur)} - {fmt_ampm(nxt)}" ("-" stands for the en dash of the source)
HourLabel(win) == fmt_ampm(win[1]) \o <<" ", "-", " ">> \o fmt_ampm(win[2])

\* labels.append(...) for each window of the loop
RECURSIVE LabelsOf(_)
LabelsOf(w) == IF w = <<>> THEN <<>> ELSE <<HourLabel(Head(w))>> \o LabelsOf(Tail(w))

fixed_hour_labels(day) == LabelsOf(HourWindows(day))

----------------------------------------------------------------------------
(* Event store *)

\* the integer primary key of a new row (SQLite rowid: largest id + 1)
NextId(table) ==
    IF table = {} THEN 1
    ELSE 1 + CHOOSE m \in {x.id : x \in table} : \A x \in table : x.id <= m

Event(table, station, role, stamp, kind, ts_utc) ==
    [id |-> NextId(table), station |-> station, role |-> role, stamp |-> stamp,
     kind |-> kind, ts_utc |-> ts_utc]

ReasonEvent(table, station, role, stamp, reason, ts_utc) ==
    [id |-> NextId(table), station |-> station, role |-> role, stamp |-> stamp,
     reason |-> reason, ts_utc |-> ts_utc]

----------------------------------------------------------------------------
(* Aggregator: today_rows_for *)

\* [0] * n
RECURSIVE Zeros(_)
Zeros(n) == IF n = 0 THEN <<>> ELSE <<0>> \o Zeros(n - 1)

\* [(labels[i], b_orders[i], b_exc[i], b_bath[i], b_break[i], b_sys[i]) for i in ...]
RECURSIVE RowList(_, _, _)
RowList(labels, b, i) ==
    IF i > Len(labels) THEN <<>>
    ELSE <<<<labels[i], b.orders[i], b.exc[i], b.bath[i], b.brk[i], b.sys[i]>>>>
         \o RowList(labels, b, i + 1)

Bump(col, idx) == [col EXCEPT ![idx + 1] = @ + 1]

\* an index rounded to the nearest hour instead of floored
BucketIndex_Rounded(local_dt, shift_start_loc) ==
    (local_dt - shift_start_loc + MinutesPerHour \div 2) \div MinutesPerHour

\* int((local_dt - shift_start_loc).total_seconds() // 3600)
BucketIndex(local_dt, shift_start_loc) ==
    (local_dt - shift_start_loc) \div MinutesPerHour

\* a query that leaves the stamp out of the key
QueryEvents_AnyStamp(evs, station, role, stamp, start_utc, end_utc) ==
    {e \in evs : /\ e.station = station /\ e.role = role
                 /\ e.ts_utc >= start_utc /\ e.ts_utc < end_utc}

\* the rows of Event with the key and ts_utc in [start_utc, end_utc)
QueryEvents(evs, station, role, stamp, start_utc, end_utc) ==
    {e \in evs : /\ e.station = station /\ e.role = role /\ e.stamp = stamp
                 /\ e.ts_utc >= start_utc /\ e.ts_utc < end_utc}

QueryReasons(rs, station, role, stamp, start_utc, end_utc) ==
    {r \in rs : /\ r.station = station /\ r.role = role /\ r.stamp = stamp
                /\ r.ts_utc >= start_utc /\ r.ts_utc < end_utc}

\* a loop that counts a muda as an order
CountEvent_MudaAsOrder(b, e, shift_start_loc, shift_end_loc) ==
    LET local_dt == LocalFromUtc(e.ts_utc)
        idx      == BucketIndex(local_dt, shift_start_loc)
    IN  IF ~(shift_start_loc <= local_dt /\ local_dt < shift_end_loc) THEN b
        ELSE IF e.kind \in {T_order, T_muda} THEN [b EXCEPT !.orders = Bump(@, idx)]
        ELSE IF e.kind = T_reject THEN [b EXCEPT !.exc = Bump(@, idx)]
        ELSE b

\* one pass of the loop over evs
CountEvent(b, e, shift_start_loc, shift_end_loc) ==
    LET local_dt == LocalFromUtc(e.ts_utc)
        idx      == BucketIndex(local_dt, shift_start_loc)
    IN  IF ~(shift_start_loc <= local_dt /\ local_dt < shift_end_loc) THEN b
        ELSE IF e.kind = T_order THEN [b EXCEPT !.orders = Bump(@, idx)]
        ELSE IF e.kind \in {T_reject, T_muda} THEN [b EXCEPT !.exc = Bump(@, idx)]
        ELSE b

\* a loop that counts a Break as a Bathroom
CountReason_BreakAsBathroom(b, r, shift_start_loc, shift_end_loc) ==
    LET local_dt == LocalFromUtc(r.ts_utc)
        idx      == BucketIndex(local_dt, shift_start_loc)
    IN  IF ~(shift_start_loc <= local_dt /\ local_dt < shift_end_loc) THEN b
        ELSE IF r.reason \in {T_Bathroom, T_Break} THEN [b EXCEPT !.bath = Bump(@, idx)]
        ELSE IF r.reason = T_SystemSlow THEN [b EXCEPT !.sys = Bump(@, idx)]
        ELSE b

\* one pass of the loop over rs
CountReason(b, r, shift_start_loc, shift_end_loc) ==
    LET local_dt == LocalFromUtc(r.ts_utc)
        idx      == BucketIndex(local_dt, shift_start_loc)
    IN  IF ~(shift_start_loc <= local_dt /\ local_dt < shift_end_loc) THEN b
        ELSE IF r.reason = T_Bathroom THEN [b EXCEPT !.bath = Bump(@, idx)]
        ELSE IF r.reason = T_Break THEN [b EXCEPT !.brk = Bump(@, idx)]
        ELSE IF r.reason = T_SystemSlow THEN [b EXCEPT !.sys = Bump(@, idx)]
        ELSE b

\* an id that has rows of S on either side: the loops below go through the
\* rows up to it, then through the others
MidId(S) ==
    LET ids == {x.id : x \in S}
        lo  == CHOOSE m \in ids : \A i \in ids : m <= i
        hi  == CHOOSE m \in ids : \A i \in ids : i <= m
    IN  (lo + hi) \div 2

RECURSIVE CountEvents(_, _, _, _)
CountEvents(b, S, shift_start_loc, shift_end_loc) ==
    IF S = {} THEN b
    ELSE IF Cardinality(S) = 1
    THEN CountEvent(b, CHOOSE x \in S : TRUE, shift_start_loc, shift_end_loc)
    ELSE LET mid == MidId(S)
         IN  CHOOSE r \in
                 {CountEvents(done, {x \in S : x.id > mid}, shift_start_loc, shift_end_loc) :
                     done \in {CountEvents(b, {x \in S : x.id <= mid},
                                  shift_start_loc, shift_end_loc)}} : TRUE

RECURSIVE CountReasons(_, _, _, _)
CountReasons(b, S, shift_start_loc, shift_end_loc) ==
    IF S = {} THEN b
    ELSE IF Cardinality(S) = 1
    THEN CountReason(b, CHOOSE x \in S : TRUE, shift_start_loc, shift_end_loc)
    ELSE LET mid == MidId(S)
         IN  CHOOSE r \in
                 {CountReasons(done, {x \in S : x.id > mid}, shift_start_loc, shift_end_loc) :
                     done \in {CountReasons(b, {x \in S : x.id <= mid},
                                   shift_start_loc, shift_end_loc)}} : TRUE

\* a count that stops at the end of the current hour
HourOrderCount_ThisHourOnly(evs, t, station, role, stamp) ==
    LET hour_start_loc == now_local(t) - (now_local(t) % MinutesPerHour)
    IN  Cardinality({e \in evs : /\ e.kind = T_order /\ e.station = station
                                 /\ e.role = role /\ e.stamp = stamp
                                 /\ e.ts_utc >= utc_from_local(hour_start_loc)
                                 /\ e.ts_utc < utc_from_local(hour_start_loc
                                                              + MinutesPerHour)})

\* the live count of the current wall-clock hour
HourOrderCount(evs, t, station, role, stamp) ==
    LET hour_start_loc == now_local(t) - (now_local(t) % MinutesPerHour)
    IN  Cardinality({e \in evs : /\ e.kind = T_order /\ e.station = station
                                 /\ e.role = role /\ e.stamp = stamp
                                 /\ e.ts_utc >= utc_from_local(hour_start_loc)})

\* today_rows_for(station, role, stamp) on the tables evs, rs at instant t
today_rows_for(evs, rs, t, station, role, stamp) ==
    LET day             == DateOf(now_local(t))
        shift_start_loc == shift_bounds_local(day)[1]
        shift_end_loc   == shift_bounds_local(day)[2]
        start_utc       == utc_from_local(shift_start_loc)
        end_utc         == utc_from_local(shift_end_loc)
        labels          == fixed_hour_labels(day)
        zeros           == Zeros(Len(labels))
        b0 == [orders |-> zeros, exc |-> zeros, bath |-> zeros, brk |-> zeros,
               sys |-> zeros]
        b1 == CountEvents(b0, QueryEvents(evs, station, role, stamp, start_utc, end_utc),
                          shift_start_loc, shift_end_loc)
        b2 == CountReasons(b1, QueryReasons(rs, station, role, stamp, start_utc, end_utc),
                           shift_start_loc, shift_end_loc)
    IN  [rows |-> RowList(labels, b2, 1),
         hour_order_count |-> HourOrderCount(evs, t, station, role, stamp),
         shift_start_loc |-> shift_start_loc,
         shift_end_loc |-> shift_end_loc]

----------------------------------------------------------------------------
(* Requests and responses *)

\* a request's fields as submitted (a missing field reads as empty text)
Request(station, role, stamp, kind, action, count, hour_ix) ==
    [station |-> station, role |-> role, stamp |-> stamp, kind |-> kind,
     action |-> action, count |-> count, hour_ix |-> hour_ix]

NoRequest == Request(Empty, Empty, Empty, Empty, Empty, Empty, Empty)

\* the station, role and stamp cookies of a worker's browser
Selection(station, role, stamp) ==
    Request(station, role, stamp, Empty, Empty, Empty, Empty)

\* what the model remembers of the last request: the route, the request's
\* fields, the local date it was served on, the response, the number n of
\* rows it inserted or deleted and, for a correction that reached the store,
\* the rows today_rows_for gave for its key just before an add, and whether
\* it is a remove that directly follows an add with the same fields on that
\* date
Response(op, status, req, n) ==
    [op |-> op, status |-> status, req |-> req, n |-> n,
     today |-> DateOf(now_local(now)), before |-> <<>>, follows_add |-> FALSE]

\* a pattern without the length: \d+
is_valid_stamp_AnyLength(stamp) ==
    Len(stamp) >= 1 /\ \A i \in 1..Len(stamp) : stamp[i] \in Digits

\* re.fullmatch(r"\d{4}", stamp or "")
is_valid_stamp(stamp) == Len(stamp) = 4 /\ \A i \in 1..4 : stamp[i] \in Digits

\* _sel(): the cookies, or None
SelOk(c) == c.station # Empty /\ c.role # Empty /\ is_valid_stamp(c.stamp)

----------------------------------------------------------------------------
(* Worker routes *)

\* the number of rows in the store
RowCount == Cardinality(events) + Cardinality(reasons)

\* GET /
home(c) ==
    /\ last' = IF c.station # Empty /\ c.role # Empty /\ c.stamp # Empty
               THEN Response("home", "rows", c, 0)
               ELSE Response("home", "select", c, 0)
    /\ UNCHANGED <<flight, now, events, reasons, admin_pass, admin_until>>

\* POST /tap_order, /tap_reject, /tap_muda
TapEvent(op, c, kind) ==
    /\ IF SelOk(c)
       THEN /\ events' = events \cup
                         {Event(events, c.station, c.role, c.stamp, kind, now)}
            /\ last' = Response(op, "ok", c, 1)
       ELSE /\ events' = events
            /\ last' = Response(op, "400 missing-selections", c, 0)
    /\ UNCHANGED <<flight, now, reasons, admin_pass, admin_until>>

tap_order(c) == TapEvent("tap_order", c, T_order)

tap_reject(c) == TapEvent("tap_reject", c, T_reject)

tap_muda(c) == TapEvent("tap_muda", c, T_muda)

\* POST /tap_reason
tap_reason(c, reason_field) ==
    LET reason == Strip(reason_field)
        req    == [c EXCEPT !.kind = reason_field]
    IN  /\ IF ~SelOk(c)
           THEN /\ reasons' = reasons
                /\ last' = Response("tap_reason", "400 missing-selections", req, 0)
           ELSE IF reason \notin Range(REASONS)
           THEN /\ reasons' = reasons
                /\ last' = Response("tap_reason", "400 invalid-reason", req, 0)
           ELSE /\ reasons' = reasons \cup
                      {ReasonEvent(reasons, c.station, c.role, c.stamp, reason, now)}
                /\ last' = Response("tap_reason", "ok", req, 1)
        /\ UNCHANGED <<flight, now, events, admin_pass, admin_until>>

\* A tap served step by step, so that other requests run between its steps:
\* the handler checks the selection and builds the row with the instant of
\* that moment (tap_begin), the session commits the insert and the store
\* gives the row its id (tap_commit), the handler reads the rows and answers
\* (tap_respond).

\* an insert that takes a row with the same values for a row already there
InsertRow_Merge(table, r) ==
    IF \E x \in table : /\ x.station = r.req.station /\ x.role = r.req.role
                        /\ x.stamp = r.req.stamp /\ x.ts_utc = r.ts_utc
                        /\ r.kind = IF r.op = "tap_reason" THEN x.reason ELSE x.kind
    THEN table
    ELSE IF r.op = "tap_reason"
    THEN table \cup {ReasonEvent(table, r.req.station, r.req.role, r.req.stamp,
                                 r.kind, r.ts_utc)}
    ELSE table \cup {Event(table, r.req.station, r.req.role, r.req.stamp,
                           r.kind, r.ts_utc)}

\* db.session.add(...); db.session.commit() of the row built by request r
InsertRow(table, r) ==
    IF r.op = "tap_reason"
    THEN table \cup {ReasonEvent(table, r.req.station, r.req.role, r.req.stamp,
                                 r.kind, r.ts_utc)}
    ELSE table \cup {Event(table, r.req.station, r.req.role, r.req.stamp,
                           r.kind, r.ts_utc)}

\* the kind a tap route writes
TapKind(op) ==
    IF op = "tap_order" THEN T_order
    ELSE IF op = "tap_reject" THEN T_reject
    ELSE T_muda

\* the first step of POST /tap_order, /tap_reject, /tap_muda, /tap_reason
tap_begin(op, c, reason_field) ==
    LET reason == Strip(reason_field)
        req    == IF op = "tap_reason" THEN [c EXCEPT !.kind = reason_field] ELSE c
    IN  /\ IF ~SelOk(c)
           THEN /\ last' = Response(op, "400 missing-selections", req, 0)
                /\ flight' = flight
           ELSE IF op = "tap_reason" /\ reason \notin Range(REASONS)
           THEN /\ last' = Response(op, "400 invalid-reason", req, 0)
                /\ flight' = flight
           ELSE /\ flight' = Append(flight,
                                    [op |-> op, req |-> req,
                                     kind |-> IF op = "tap_reason" THEN reason
                                              ELSE TapKind(op),
                                     ts_utc |-> now, pc |-> "built", id |-> 0])
                /\ last' = last
        /\ UNCHANGED <<now, events, reasons, admin_pass, admin_until>>

\* the commit of the request that began as the i-th
tap_commit(i) ==
    /\ i \in 1..Len(flight)
    /\ flight[i].pc = "built"
    /\ IF flight[i].op = "tap_reason"
       THEN /\ reasons' = InsertRow(reasons, flight[i])
            /\ events' = events
            /\ flight' = [flight EXCEPT ![i].pc = "committed",
                                        ![i].id = NextId(reasons)]
       ELSE /\ events' = InsertRow(events, flight[i])
            /\ reasons' = reasons
            /\ flight' = [flight EXCEPT ![i].pc = "committed",
                                        ![i].id = NextId(events)]
    /\ UNCHANGED <<now, admin_pass, admin_until, last>>

\* the answer of the request that began as the i-th
tap_respond(i) ==
    /\ i \in 1..Len(flight)
    /\ flight[i].pc = "committed"
    /\ flight' = [flight EXCEPT ![i].pc = "done"]
    /\ last' = Response(flight[i].op, "ok", flight[i].req, 1)
    /\ UNCHANGED <<now, events, reasons, admin_pass, admin_until>>

\* the system clock moves on to a later instant of T
Tick(T) ==
    /\ \E t \in T : t > now /\ now' = t
    /\ UNCHANGED <<flight, events, reasons, admin_pass, admin_until, last>>

----------------------------------------------------------------------------
(* Dashboard *)

BTEn(digits) == <<"B", "T", "E", "n", "-">> \o digits

STATIONS ==
    <<T_BTEn1, T_BTEn2, BTEn(<<"3">>), BTEn(<<"4">>), BTEn(<<"5">>), BTEn(<<"6">>),
      BTEn(<<"7">>), BTEn(<<"8">>), BTEn(<<"9">>), BTEn(<<"1", "0">>),
      BTEn(<<"1", "1">>), BTEn(<<"1", "2">>)>>

ROLES == <<T_Verifier1, T_Verifier2, T_Shipper>>

\* the rows of a query without order_by, in the order of their ids
RECURSIVE InIdOrder(_)
InIdOrder(S) ==
    IF S = {} THEN <<>>
    ELSE LET x == CHOOSE y \in S : \A z \in S : y.id <= z.id
         IN  <<x>> \o InIdOrder(S \ {x})

\* a query without the filter on ts_utc
DayRows_AllDay(table, t) == InIdOrder(table)

\* Event.query.filter(ts_utc >= start_utc, ts_utc < end_utc).all(), and the
\* same query of ReasonEvent
DayRows(table, t) ==
    LET day       == DateOf(now_local(t))
        start_utc == utc_from_local(shift_bounds_local(day)[1])
        end_utc   == utc_from_local(shift_bounds_local(day)[2])
    IN  InIdOrder({x \in table : x.ts_utc >= start_utc /\ x.ts_utc < end_utc})

\* d.get(k, default) and d[k] = v of a dict, a function on its keys
DictGet(d, k, default) == IF k \in DOMAIN d THEN d[k] ELSE default

DictPut(d, k, v) == [x \in DOMAIN d \cup {k} |-> IF x = k THEN v ELSE d[x]]

\* a test that leaves out the role
ShippedOrder_AnyRole(e) == e.kind = T_order

\* e.role == "Shipper" and e.kind == "order"
ShippedOrder(e) == e.role = T_Shipper /\ e.kind = T_order

\* the loop that fills station_day, from row i of evs on
RECURSIVE StationDay(_, _, _)
StationDay(station_day, evs, i) ==
    IF i > Len(evs) THEN station_day
    ELSE LET e == evs[i]
         IN  StationDay(IF ShippedOrder(e)
                        THEN DictPut(station_day, e.station,
                                     DictGet(station_day, e.station, 0) + 1)
                        ELSE station_day,
                        evs, i + 1)

\* sorted(list, key=lambda r: r[1], reverse=True), from entry i of list on:
\* an entry goes behind the entries of acc whose count is not smaller
RECURSIVE SortTotals(_, _, _)
SortTotals(list, i, acc) ==
    IF i > Len(list) THEN acc
    ELSE LET x   == list[i]
             pos == Cardinality({j \in 1..Len(acc) : acc[j][2] >= x[2]})
         IN  SortTotals(list, i + 1,
                        SubSeq(acc, 1, pos) \o <<x>> \o SubSeq(acc, pos + 1, Len(acc)))

\* station_totals of dashboard(): <<station, count>> for every station
station_totals(evs, t) ==
    LET station_day == StationDay([s \in Range(STATIONS) |-> 0], DayRows(evs, t), 1)
        list == [i \in 1..Len(STATIONS) |->
                    <<STATIONS[i], DictGet(station_day, STATIONS[i], 0)>>]
    IN  SortTotals(list, 1, <<>>)

\* hour_index(dt_utc) of dashboard()
hour_index(ts_utc, start_loc, end_loc) ==
    LET local_dt == LocalFromUtc(ts_utc)
    IN  IF ~(start_loc <= local_dt /\ local_dt < end_loc) THEN -1
        ELSE BucketIndex(local_dt, start_loc)

NoColumn == "none"

\* groups[idx].setdefault(key, {...}) and the += 1 on the column col; a dict
\* is the sequence of its entries in the order they were put in
Touch(group, key, col) ==
    LET g1 == IF \E i \in 1..Len(group) : group[i].key = key THEN group
              ELSE Append(group, [key |-> key, orders |-> 0, ex |-> 0, brk |-> 0,
                                  bth |-> 0, sys |-> 0])
        i  == CHOOSE j \in 1..Len(g1) : g1[j].key = key
    IN  IF col = NoColumn THEN g1 ELSE [g1 EXCEPT ![i][col] = @ + 1]

\* a column choice that leaves muda out of the exceptions
EventColumn_NoMuda(e) ==
    IF e.kind = T_order THEN "orders"
    ELSE IF e.kind = T_reject THEN "ex"
    ELSE NoColumn

\* the column a count event goes to
EventColumn(e) ==
    IF e.kind = T_order THEN "orders"
    ELSE IF e.kind \in {T_reject, T_muda} THEN "ex"
    ELSE NoColumn

\* the column a reason event goes to
ReasonColumn(r) ==
    IF r.reason = T_Break THEN "brk"
    ELSE IF r.reason = T_Bathroom THEN "bth"
    ELSE IF r.reason = T_SystemSlow THEN "sys"
    ELSE NoColumn

\* the loops over evs and over rs, from row i of xs on; cols is the list of
\* the columns of the rows
RECURSIVE GroupRows(_, _, _, _, _, _, _)
GroupRows(groups, xs, cols, i, selected_station, start_loc, end_loc) ==
    IF i > Len(xs) THEN groups
    ELSE LET x   == xs[i]
             idx == hour_index(x.ts_utc, start_loc, end_loc)
         IN  GroupRows(IF x.station # selected_station \/ idx < 0 THEN groups
                       ELSE [groups EXCEPT
                                ![idx + 1] = Touch(@, <<x.stamp, x.role>>, cols[i])],
                       xs, cols, i + 1, selected_station, start_loc, end_loc)

\* a rank that puts the other roles first
role_rank_OthersFirst(role) ==
    IF role = T_Shipper THEN 1
    ELSE IF role = T_Verifier1 THEN 2
    ELSE IF role = T_Verifier2 THEN 3
    ELSE 0

\* role_rank.get(role, 9)
role_rank(role) ==
    IF role = T_Shipper THEN 0
    ELSE IF role = T_Verifier1 THEN 1
    ELSE IF role = T_Verifier2 THEN 2
    ELSE 9

\* a < b for two texts, as Python compares str: by the first place where
\* they differ, a proper prefix first; the texts compared are stamps
RECURSIVE TextLess(_, _)
TextLess(a, b) ==
    IF b = <<>> THEN FALSE
    ELSE IF a = <<>> THEN TRUE
    ELSE IF Head(a) = Head(b) THEN TextLess(Tail(a), Tail(b))
    ELSE DigitValue(Head(a)) < DigitValue(Head(b))

\* the sort key (role_rank.get(role, 9), stamp) of x comes before that of y
KeyLess(x, y) ==
    \/ role_rank(x.key[2]) < role_rank(y.key[2])
    \/ /\ role_rank(x.key[2]) = role_rank(y.key[2])
       /\ TextLess(x.key[1], y.key[1])

\* sorted(ppl.items(), key=...), from entry i of the dict on: an entry goes
\* behind the entries of acc it does not come before
RECURSIVE SortRows(_, _, _)
SortRows(group, i, acc) ==
    IF i > Len(group) THEN acc
    ELSE LET x   == group[i]
             pos == Cardinality({j \in 1..Len(acc) : ~KeyLess(x, acc[j])})
         IN  SortRows(group, i + 1,
                      SubSeq(acc, 1, pos) \o <<x>> \o SubSeq(acc, pos + 1, Len(acc)))

\* rows.append({"stamp": stamp, "role": role, ...})
DetailRow(x) ==
    [stamp |-> x.key[1], role |-> x.key[2], orders |-> x.orders, ex |-> x.ex,
     brk |-> x.brk, bth |-> x.bth, sys |-> x.sys]

\* groups after the two loops
DetailGroups(evs, rs, t, selected_station) ==
    LET day       == DateOf(now_local(t))
        labels    == fixed_hour_labels(day)
        start_loc == shift_bounds_local(day)[1]
        end_loc   == shift_bounds_local(day)[2]
        es        == DayRows(evs, t)
        xs        == DayRows(rs, t)
        g0        == [i \in 1..Len(labels) |-> <<>>]
        g1        == GroupRows(g0, es, [i \in 1..Len(es) |-> EventColumn(es[i])], 1,
                               selected_station, start_loc, end_loc)
    IN  GroupRows(g1, xs, [i \in 1..Len(xs) |-> ReasonColumn(xs[i])], 1,
                  selected_station, start_loc, end_loc)

\* the rows of one hour: the entries of its dict, sorted
RECURSIVE DetailRows(_, _)
DetailRows(sorted, j) ==
    IF j > Len(sorted) THEN <<>>
    ELSE <<DetailRow(sorted[j])>> \o DetailRows(sorted, j + 1)

\* station_details.append({"hour": labels[i], "rows": rows}) from hour i on
RECURSIVE DetailList(_, _, _)
DetailList(labels, groups, i) ==
    IF i > Len(labels) THEN <<>>
    ELSE <<[hour |-> labels[i],
            rows |-> DetailRows(SortRows(groups[i], 1, <<>>), 1)]>>
         \o DetailList(labels, groups, i + 1)

\* a list with the hours that have rows only
station_details_NonEmptyOnly(evs, rs, t, selected_station) ==
    IF selected_station = Empty THEN <<>>
    ELSE LET HasRows(g) == g.rows # <<>>
         IN  SelectSeq(DetailList(fixed_hour_labels(DateOf(now_local(t))),
                                  DetailGroups(evs, rs, t, selected_station), 1),
                       HasRows)

\* station_details of dashboard(): one {"hour", "rows"} for every label
station_details(evs, rs, t, selected_station) ==
    IF selected_station = Empty THEN <<>>
    ELSE DetailList(fixed_hour_labels(DateOf(now_local(t))),
                    DetailGroups(evs, rs, t, selected_station), 1)

\* GET /dashboard?station=...
dashboard(station) ==
    /\ last' = Response("dashboard", "ok", Selection(station, Empty, Empty),
                        Len(station_details(events, reasons, now, station)))
    /\ UNCHANGED <<flight, now, events, reasons, admin_pass, admin_until>>

\* GET /export/today.csv: a line for every row of the two tables in today's
\* shift window
export_today_csv ==
    /\ last' = Response("export_today_csv", "ok", NoRequest,
                        Len(DayRows(events, now)) + Len(DayRows(reasons, now)))
    /\ UNCHANGED <<flight, now, events, reasons, admin_pass, admin_until>>

\* GET /export/stations.csv: a line for every entry of the station totals
export_station_totals_csv ==
    /\ last' = Response("export_station_totals_csv", "ok", NoRequest,
                        Len(station_totals(events, now)))
    /\ UNCHANGED <<flight, now, events, reasons, admin_pass, admin_until>>

----------------------------------------------------------------------------
(* Manager panel: authorization *)

\* datetime.isoformat(): the date, the hour and the minute of an instant
IsoFormat(t) ==
    <<t \div MinutesPerDay, (t % MinutesPerDay) \div MinutesPerHour, t % MinutesPerHour>>

\* datetime.fromisoformat(s) raises ValueError unless s has the three fields
IsoParses(s) ==
    /\ Len(s) = 3
    /\ s[2] \in 0..23
    /\ s[3] \in 0..(MinutesPerHour - 1)

FromIsoFormat(s) == s[1] * MinutesPerDay + s[2] * MinutesPerHour + s[3]

\* a check that never looks at the clock
_is_authed_NoExpiry(until, t) ==
    IF until = <<>> THEN FALSE
    ELSE IsoParses(until)

_is_authed(until, t) ==
    IF until = <<>> THEN FALSE
    ELSE IF ~IsoParses(until) THEN FALSE
    ELSE t < FromIsoFormat(until)

_grant_auth(t) == IsoFormat(t + SESSION_HOURS * MinutesPerHour)

\* the fields of a request to /admin/login
LoginForm(method, password) == [method |-> method, password |-> password]

\* /admin/login
login(method, password) ==
    LET f == LoginForm(method, password)
    IN  /\ IF admin_pass = Empty
           THEN /\ admin_until' = admin_until
                /\ last' = Response("login", "login page: no ADMIN_PASS", f, 0)
           ELSE IF method = "POST" /\ password = admin_pass
           THEN /\ admin_until' = _grant_auth(now)
                /\ last' = Response("login", "redirect panel", f, 0)
           ELSE IF method = "POST"
           THEN /\ admin_until' = admin_until
                /\ last' = Response("login", "login page: wrong password", f, 0)
           ELSE /\ admin_until' = admin_until
                /\ last' = Response("login", "login page", f, 0)
        /\ UNCHANGED <<flight, now, events, reasons, admin_pass>>

\* /admin/logout
logout ==
    /\ admin_until' = <<>>
    /\ last' = Response("logout", "redirect login", NoRequest, 0)
    /\ UNCHANGED <<flight, now, events, reasons, admin_pass>>

\* GET /admin/
panel ==
    /\ last' = IF _is_authed(admin_until, now)
               THEN Response("panel", "panel", NoRequest, 0)
               ELSE Response("panel", "redirect login", NoRequest, 0)
    /\ UNCHANGED <<flight, now, events, reasons, admin_pass, admin_until>>

----------------------------------------------------------------------------
(* Manager panel: adjust_hour *)

Min(a, b) == IF a < b THEN a ELSE b

Max(a, b) == IF a > b THEN a ELSE b

\* a clamp that forgets the upper limit
ClampCount_NoUpper(n) == Max(1, n)

\* max(1, min(99, int(count_s)))
ClampCount(n) == Max(1, Min(99, n))

\* kind.split(":", 1)[1] of a kind that starts with "reason:"
ReasonOf(kind) == SubSeq(kind, Len(T_reasonPrefix) + 1, Len(kind))

\* the subsets of S with k elements
RECURSIVE KSubsets(_, _)
KSubsets(S, k) ==
    IF k = 0 THEN {{}}
    ELSE IF k = Cardinality(S) THEN {S}
    ELSE IF k = 1 THEN {{x} : x \in S}
    ELSE IF 2 * k > Cardinality(S)
    THEN {S \ C : C \in KSubsets(S, Cardinality(S) - k)}
    ELSE LET x == CHOOSE y \in S : TRUE
         IN  {K \cup {x} : K \in KSubsets(S \ {x}, k - 1)}
             \cup KSubsets(S \ {x}, k)

\* a query without the limit: every matching row
NewestFirst_NoLimit(matching, count) == {matching}

\* a query in ascending order: the oldest rows
NewestFirst_OldestFirst(matching, count) ==
    {D \in SUBSET matching :
        /\ Cardinality(D) = Min(count, Cardinality(matching))
        /\ \A d \in D : \A k \in matching \ D : d.ts_utc <= k.ts_utc}

\* the rows q.order_by(ts_utc.desc()).limit(count).all() may return: count of
\* the matching rows (all of them when there are fewer), none older than a
\* row left out; rows of equal ts_utc come in an order the store chooses.
\* The rows newer than the timestamp at which the limit falls all go, and of
\* the rows with that timestamp as many as the limit still allows
NewestFirst(matching, count) ==
    LET n == Min(count, Cardinality(matching))
    IN  IF n <= 0 THEN {{}}
        ELSE LET cut == CHOOSE t \in {x.ts_utc : x \in matching} :
                           /\ Cardinality({x \in matching : x.ts_utc > t}) < n
                           /\ Cardinality({x \in matching : x.ts_utc >= t}) >= n
                 newer == {x \in matching : x.ts_utc > cut}
                 ties  == {x \in matching : x.ts_utc = cut}
             IN  {newer \cup K : K \in KSubsets(ties, n - Cardinality(newer))}

MatchingEvents(evs, station, role, stamp, kind, start_utc, end_utc) ==
    {e \in evs : /\ e.station = station /\ e.role = role /\ e.stamp = stamp
                 /\ e.kind = kind
                 /\ e.ts_utc >= start_utc /\ e.ts_utc < end_utc}

\* a query that leaves the reason out
MatchingReasons_AnyReason(rs, station, role, stamp, reason, start_utc, end_utc) ==
    {r \in rs : /\ r.station = station /\ r.role = role /\ r.stamp = stamp
                /\ r.ts_utc >= start_utc /\ r.ts_utc < end_utc}

MatchingReasons(rs, station, role, stamp, reason, start_utc, end_utc) ==
    {r \in rs : /\ r.station = station /\ r.role = role /\ r.stamp = stamp
                /\ r.reason = reason
                /\ r.ts_utc >= start_utc /\ r.ts_utc < end_utc}

\* an added row placed one hour and one minute after the start of the bucket
AddedTs_NextHour(start_utc) == start_utc + MinutesPerHour + 1

\* where an added row is placed: ts_utc = start_utc + timedelta(minutes=1)
AddedTs(start_utc) == start_utc + 1

\* an add that also moves the rows of the key and kind to the new instant
AddEvents_Restamp(table, count, station, role, stamp, kind, ts_utc) ==
    {IF x.station = station /\ x.role = role /\ x.stamp = stamp /\ x.kind = kind
     THEN [x EXCEPT !.ts_utc = ts_utc] ELSE x : x \in table}
    \cup {[Event(table, station, role, stamp, kind, ts_utc)
              EXCEPT !.id = NextId(table) + i] : i \in 0..(count - 1)}

AddEvents(table, count, station, role, stamp, kind, ts_utc) ==
    table \cup {[Event(table, station, role, stamp, kind, ts_utc)
                    EXCEPT !.id = NextId(table) + i] : i \in 0..(count - 1)}

AddReasons(table, count, station, role, stamp, reason, ts_utc) ==
    table \cup {[ReasonEvent(table, station, role, stamp, reason, ts_utc)
                    EXCEPT !.id = NextId(table) + i] : i \in 0..(count - 1)}

\* checks that turn down a count outside 1..99
FormParses_CountInRange(f) ==
    LET station == Strip(f.station)
        role    == Strip(f.role)
        stamp   == Strip(f.stamp)
        kind    == Strip(f.kind)
        action  == Strip(f.action)
        count_s   == Strip(IF f.count = Empty THEN <<"1">> ELSE f.count)
        hour_ix_s == Strip(f.hour_ix)
    IN  /\ IntParses(count_s) /\ IntParses(hour_ix_s)
        /\ IntValue(count_s) \in 1..99
        /\ station # Empty /\ role # Empty /\ stamp # Empty
        /\ Len(stamp) = 4 /\ IsDigit(stamp)
        /\ (kind \in {T_order, T_reject, T_muda} \/ StartsWith(kind, T_reasonPrefix))
        /\ action \in {T_add, T_remove}

\* checks that leave out the length of the stamp
FormParses_AnyStampLength(f) ==
    LET station == Strip(f.station)
        role    == Strip(f.role)
        stamp   == Strip(f.stamp)
        kind    == Strip(f.kind)
        action  == Strip(f.action)
        count_s   == Strip(IF f.count = Empty THEN <<"1">> ELSE f.count)
        hour_ix_s == Strip(f.hour_ix)
    IN  /\ IntParses(count_s) /\ IntParses(hour_ix_s)
        /\ station # Empty /\ role # Empty /\ stamp # Empty
        /\ IsDigit(stamp)
        /\ (kind \in {T_order, T_reject, T_muda} \/ StartsWith(kind, T_reasonPrefix))
        /\ action \in {T_add, T_remove}

\* the form passes the checks made before the shift window is computed
FormParses(f) ==
    LET station == Strip(f.station)
        role    == Strip(f.role)
        stamp   == Strip(f.stamp)
        kind    == Strip(f.kind)
        action  == Strip(f.action)
        count_s   == Strip(IF f.count = Empty THEN <<"1">> ELSE f.count)
        hour_ix_s == Strip(f.hour_ix)
    IN  /\ IntParses(count_s) /\ IntParses(hour_ix_s)
        /\ station # Empty /\ role # Empty /\ stamp # Empty
        /\ Len(stamp) = 4 /\ IsDigit(stamp)
        /\ (kind \in {T_order, T_reject, T_muda} \/ StartsWith(kind, T_reasonPrefix))
        /\ action \in {T_add, T_remove}

\* POST /admin/adjust
adjust_hour(f) ==
    LET station == Strip(f.station)
        role    == Strip(f.role)
        stamp   == Strip(f.stamp)
        kind    == Strip(f.kind)
        action  == Strip(f.action)
        count_s   == Strip(IF f.count = Empty THEN <<"1">> ELSE f.count)
        hour_ix_s == Strip(f.hour_ix)
        count   == ClampCount(IntValue(count_s))
        hour_ix == IntValue(hour_ix_s)
        today   == DateOf(now_local(now))
        start_loc == shift_bounds_local(today)[1]
        labels  == fixed_hour_labels(today)
        hour_start_loc == start_loc + hour_ix * MinutesPerHour
        hour_end_loc   == hour_start_loc + MinutesPerHour
        start_utc == utc_from_local(hour_start_loc)
        end_utc   == utc_from_local(hour_end_loc)
        reason  == ReasonOf(kind)
        before  == today_rows_for(events, reasons, now, station, role, stamp).rows
        follows == /\ last.op = "adjust_hour" /\ last.status = "panel"
                   /\ Strip(last.req.action) = T_add /\ action = T_remove
                   /\ [last.req EXCEPT !.action = f.action] = f
                   /\ last.today = today
        Panel(n) == [Response("adjust_hour", "panel", f, n)
                        EXCEPT !.before = IF action = T_add THEN before ELSE <<>>,
                               !.follows_add = follows]
    IN  IF ~_is_authed(admin_until, now)
        THEN /\ last' = Response("adjust_hour", "redirect login", f, 0)
             /\ UNCHANGED <<flight, now, events, reasons, admin_pass, admin_until>>
        ELSE IF ~FormParses(f) \/ ~(0 <= hour_ix /\ hour_ix < Len(labels))
        THEN /\ last' = Response("adjust_hour", "redirect panel", f, 0)
             /\ UNCHANGED <<flight, now, events, reasons, admin_pass, admin_until>>
        ELSE IF StartsWith(kind, T_reasonPrefix) /\ action = T_remove
        THEN /\ \E D \in NewestFirst(MatchingReasons(reasons, station, role, stamp,
                                                     reason, start_utc, end_utc), count) :
                    /\ reasons' = reasons \ D
                    /\ last' = Panel(Cardinality(D))
             /\ UNCHANGED <<flight, now, events, admin_pass, admin_until>>
        ELSE IF StartsWith(kind, T_reasonPrefix)
        THEN /\ reasons' = AddReasons(reasons, count, station, role, stamp, reason,
                                      AddedTs(start_utc))
             /\ last' = Panel(count)
             /\ UNCHANGED <<flight, now, events, admin_pass, admin_until>>
        ELSE IF action = T_remove
        THEN /\ \E D \in NewestFirst(MatchingEvents(events, station, role, stamp,
                                                    kind, start_utc, end_utc), count) :
                    /\ events' = events \ D
                    /\ last' = Panel(Cardinality(D))
             /\ UNCHANGED <<flight, now, reasons, admin_pass, admin_until>>
        ELSE /\ events' = AddEvents(events, count, station, role, stamp, kind,
                                    AddedTs(start_utc))
             /\ last' = Panel(count)
             /\ UNCHANGED <<flight, now, reasons, admin_pass, admin_until>>

----------------------------------------------------------------------------
(* Manager panel: delete-latest *)

\* the oldest rows instead of the newest
LatestMatch_Oldest(matching) ==
    {x \in matching : \A y \in matching : x.ts_utc <= y.ts_utc}

\* the rows that can come first when the matching rows are ordered by
\* timestamp descending
LatestMatch(matching) ==
    {x \in matching : \A y \in matching : x.ts_utc >= y.ts_utc}

\* Delete-latest(station, role, stamp, kind-or-reason); the answer carries the
\* preview of the deleted row in its field before
delete_latest(f) ==
    LET today     == DateOf(now_local(now))
        start_utc == utc_from_local(shift_bounds_local(today)[1])
        end_utc   == utc_from_local(shift_bounds_local(today)[2])
        is_reason == StartsWith(f.kind, T_reasonPrefix)
        matching  == IF is_reason
                     THEN MatchingReasons(reasons, f.station, f.role, f.stamp,
                                          ReasonOf(f.kind), start_utc, end_utc)
                     ELSE MatchingEvents(events, f.station, f.role, f.stamp,
                                         f.kind, start_utc, end_utc)
    IN  IF ~_is_authed(admin_until, now)
        THEN /\ last' = Response("delete_latest", "redirect login", f, 0)
             /\ UNCHANGED <<flight, now, events, reasons, admin_pass, admin_until>>
        ELSE IF matching = {}
        THEN /\ last' = Response("delete_latest", "nothing found", f, 0)
             /\ UNCHANGED <<flight, now, events, reasons, admin_pass, admin_until>>
        ELSE \E d \in LatestMatch(matching) :
                /\ events' = IF is_reason THEN events ELSE events \ {d}
                /\ reasons' = IF is_reason THEN reasons \ {d} ELSE reasons
                /\ last' = [Response("delete_latest", "deleted", f, 1)
                               EXCEPT !.before = <<d>>]
                /\ UNCHANGED <<flight, now, admin_pass, admin_until>>

----------------------------------------------------------------------------
(* Inputs *)

\* instants of day 0 (standard time) and of day 1 (daylight time), in UTC
At(day, hour, minute, offset) ==
    day * MinutesPerDay + hour * MinutesPerHour + minute - offset

T0430 == At(0, 4, 30, StdOffset)

T0500 == At(0, 5, 0, StdOffset)

T0630 == At(0, 6, 30, StdOffset)

T0645 == At(0, 6, 45, StdOffset)

T0910 == At(0, 9, 10, StdOffset)

T0940 == At(0, 9, 40, StdOffset)

T1859 == At(0, 18, 59, StdOffset)

T1900 == At(0, 19, 0, StdOffset)

D1_0630 == At(1, 6, 30, DstOffset)

K1 == Selection(T_BTEn1, T_Shipper, T_1234)

K2 == Selection(T_BTEn1, T_Shipper, T_5678)

K3 == Selection(T_BTEn2, T_Verifier1, T_1234)

Keys == {K1, K2, K3}

InitAt(t, pass) ==
    /\ flight = <<>>
    /\ now = t
    /\ events = {}
    /\ reasons = {}
    /\ admin_pass = pass
    /\ admin_until = <<>>
    /\ last = [op |-> "none", status |-> "none", req |-> NoRequest, n |-> 0,
               today |-> DateOf(now_local(t)), before |-> <<>>,
               follows_add |-> FALSE]

----------------------------------------------------------------------------
(* The worker's side: taps, the home page and the clock *)

MaxRowsAgg == 2

\* 05:00, 18:59 and 19:00 of day 0, 06:30 of day 1
ClockAgg == {T0500, T1859, T1900, D1_0630}

InitAgg == InitAt(T0500, Empty)

NextAgg ==
    \/ Tick(ClockAgg)
    \/ home(K1)
    \/ \E c \in {K1, K2} : tap_order(c) /\ RowCount' <= MaxRowsAgg
    \/ tap_reject(K1) /\ RowCount' <= MaxRowsAgg
    \/ tap_muda(K1) /\ RowCount' <= MaxRowsAgg
    \/ \E r \in Range(REASONS) : tap_reason(K1, r) /\ RowCount' <= MaxRowsAgg

SpecAgg == InitAgg /\ [][NextAgg]_vars

----------------------------------------------------------------------------
(* The manager's side: corrections of the rows workers tapped *)

MaxRowsAdj == 2

\* the largest row id either table hands out
MaxIdAdj == 2

\* the tables after the step stay within the bounds
BoundedAdj ==
    /\ RowCount' <= MaxRowsAdj
    /\ \A e \in events' : e.id <= MaxIdAdj
    /\ \A r \in reasons' : r.id <= MaxIdAdj

\* 06:30 and 09:10 of day 0: the second and the fifth hour of the shift
ClockAdj == {T0630, T0910}

T_reasonBreak == T_reasonPrefix \o T_Break

T_reasonLunch == T_reasonPrefix \o T_Lunch

\* the forms of the panel for key K1: order, Break and an unlisted reason,
\* add or remove 1 or 2, in the second hour of the shift
FormsAdj ==
    {Request(T_BTEn1, T_Shipper, T_1234, kind, action, count, hour_ix) :
        kind \in {T_order, T_reasonBreak, T_reasonLunch},
        action \in {T_add, T_remove},
        count \in {<<"1">>, <<"2">>},
        hour_ix \in {<<"1">>}}

InitAdj == InitAt(T0630, T_secret)

NextAdj ==
    \/ Tick(ClockAdj)
    \/ login("POST", T_secret)
    \/ \E c \in {K1, K2} : tap_order(c) /\ BoundedAdj
    \/ tap_reason(K1, T_Break) /\ BoundedAdj
    \/ \E f \in FormsAdj : adjust_hour(f) /\ BoundedAdj

SpecAdj == InitAdj /\ [][NextAdj]_vars

----------------------------------------------------------------------------
(* The manager's session *)

MaxRowsAuth == 2

MaxIdAuth == 2

\* 04:30, 05:00, 06:30 (two hours after 04:30, to the minute) and 06:45
ClockAuth == {T0430, T0500, T0630, T0645}

\* an admin_until that datetime.fromisoformat rejects
BadToken == <<0, 25, 0>>

\* the passwords typed into the login form
Passwords == {T_secret, T_wrong, Empty}

\* add or remove one order of key K1 in the second hour of the shift
FormsAuth ==
    {Request(T_BTEn1, T_Shipper, T_1234, T_order, action, <<"1">>, <<"1">>) :
        action \in {T_add, T_remove}}

\* ADMIN_PASS is set or not; the browser comes without a session cookie or
\* with one whose admin_until does not parse
InitAuth ==
    /\ flight = <<>>
    /\ now = T0430
    /\ events = {}
    /\ reasons = {}
    /\ admin_pass \in {Empty, T_secret}
    /\ admin_until \in {<<>>, BadToken}
    /\ last = [op |-> "none", status |-> "none", req |-> NoRequest, n |-> 0,
               today |-> DateOf(now_local(T0430)), before |-> <<>>,
               follows_add |-> FALSE]

BoundedAuth ==
    /\ RowCount' <= MaxRowsAuth
    /\ \A e \in events' : e.id <= MaxIdAuth

NextAuth ==
    \/ Tick(ClockAuth)
    \/ \E method \in {"GET", "POST"} : \E password \in Passwords :
          login(method, password)
    \/ logout
    \/ panel
    \/ \E f \in FormsAuth : adjust_hour(f) /\ BoundedAuth

SpecAuth == InitAuth /\ [][NextAuth]_vars

----
(* What the claims speak of *)

Today == DateOf(now_local(now))

NBuckets == SHIFT_END_HOUR - SHIFT_START_HOUR

\* bucket i (1..NBuckets) of day d, as local wall-clock bounds
BucketLo(d, i) == shift_bounds_local(d)[1] + (i - 1) * MinutesPerHour

BucketHi(d, i) == BucketLo(d, i) + MinutesPerHour

\* the local time of row x lies in bucket i of day d
InBucket(x, d, i) ==
    LET lo == BucketLo(d, i)
        t  == LocalFromUtc(x.ts_utc)
    IN  lo <= t /\ t < lo + MinutesPerHour

\* the bucket of day d that contains the local time of row x (0: none does)
BucketOfRow(x, d) ==
    IF \E i \in 1..NBuckets : InBucket(x, d, i)
    THEN CHOOSE i \in 1..NBuckets : InBucket(x, d, i)
    ELSE 0

\* every row of S with the bucket of day d it lies in
Placement(S, d) == {<<x, BucketOfRow(x, d)>> : x \in S}

\* the timestamp of row x lies in the shift window of day d
InShift(x, d) ==
    /\ utc_from_local(shift_bounds_local(d)[1]) <= x.ts_utc
    /\ x.ts_utc < utc_from_local(shift_bounds_local(d)[2])

OfKey(x, k) == x.station = k.station /\ x.role = k.role /\ x.stamp = k.stamp

KeyOf(x) == Selection(x.station, x.role, x.stamp)

\* the keys of the inputs and of every stored row
KnownKeys == Keys \cup {KeyOf(x) : x \in events} \cup {KeyOf(x) : x \in reasons}

\* the rows the aggregator gives for key k in the current state
Rows(k) == today_rows_for(events, reasons, now, k.station, k.role, k.stamp).rows

RECURSIVE SumColumn(_, _, _)
SumColumn(rows, col, n) ==
    IF n = 0 THEN 0 ELSE rows[n][col] + SumColumn(rows, col, n - 1)

ColOrders == 2

ColExceptions == 3

ColBathroom == 4

ColBreak == 5

ColSystemSlow == 6

\* a handler that calls today_rows_for has answered
AggregatorRan ==
    \/ last.op = "home" /\ last.status = "rows"
    \/ last.op \in {"tap_order", "tap_reject", "tap_muda", "tap_reason"}
       /\ last.status = "ok"

----------------------------------------------------------------------------
(* C1 *)

\* C1: on every calendar day the hour buckets of the shift are ordered,
\* contiguous, non-overlapping, each one hour long (on the wall clock and in
\* elapsed time), cover exactly [shift_start, shift_end), and there are
\* SHIFT_END_HOUR - SHIFT_START_HOUR = 14 of them, one label each.
C1_BucketsCoverShift ==
    LET w == HourWindows(Today)
        s == shift_bounds_local(Today)
        labels == fixed_hour_labels(Today)
    IN  /\ Len(w) = SHIFT_END_HOUR - SHIFT_START_HOUR
        /\ Len(w) = 14
        /\ Len(labels) = Len(w)
        /\ DateOf(s[1]) = Today /\ DateOf(s[2]) = Today
        /\ s[1] % MinutesPerDay = SHIFT_START_HOUR * MinutesPerHour
        /\ s[2] % MinutesPerDay = SHIFT_END_HOUR * MinutesPerHour
        /\ w[1][1] = s[1]
        /\ w[Len(w)][2] = s[2]
        /\ \A i \in 1..Len(w) :
              /\ w[i][2] - w[i][1] = MinutesPerHour
              /\ utc_from_local(w[i][2]) - utc_from_local(w[i][1]) = MinutesPerHour
              /\ w[i][1] = BucketLo(Today, i)
              /\ labels[i] =
                    fmt_ampm(w[i][1]) \o <<" ", "-", " ">> \o fmt_ampm(w[i][2])
        /\ \A i \in 1..(Len(w) - 1) : w[i][2] = w[i + 1][1]

\* the buckets have been computed on the day daylight time starts
C1_Witness == AggregatorRan /\ last.today = 1 /\ Today = 1

----------------------------------------------------------------------------
(* C2 *)

\* C2: for every key, the order counts of all buckets of today_rows_for add
\* up to the number of stored order events of that key whose timestamp lies
\* in today's shift window.
C2_OrdersConserved ==
    \A k \in KnownKeys :
        LET rows == Rows(k)
        IN  SumColumn(rows, ColOrders, Len(rows)) =
            Cardinality({e \in events : OfKey(e, k) /\ e.kind = T_order
                                        /\ InShift(e, Today)})

\* a key has an order inside the shift and one outside it
C2_Witness ==
    /\ AggregatorRan
    /\ \E e1, e2 \in events :
          /\ e1.kind = T_order /\ e2.kind = T_order
          /\ OfKey(e1, K1) /\ OfKey(e2, K1)
          /\ InShift(e1, Today) /\ ~InShift(e2, Today)
    /\ SumColumn(Rows(K1), ColOrders, NBuckets) = 1

----------------------------------------------------------------------------
(* C4 *)

\* C4: in every bucket the exceptions column is the number of reject events
\* plus the number of muda events of the key in that bucket, and the orders
\* column is the number of its order events there: no reject or muda is
\* counted as an order.
C4_ExceptionsMergeRejectMuda ==
    \A k \in KnownKeys :
        LET rows == Rows(k)
            ek   == {e \in events : OfKey(e, k)}
            at   == Placement(ek, Today)
        IN  \A i \in 1..NBuckets :
               /\ rows[i][ColExceptions] =
                     Cardinality({p \in at : p[2] = i /\ p[1].kind = T_reject})
                     + Cardinality({p \in at : p[2] = i /\ p[1].kind = T_muda})
               /\ rows[i][ColOrders] =
                     Cardinality({p \in at : p[2] = i /\ p[1].kind = T_order})

\* a reject and a muda of one key in one bucket
C4_Witness ==
    /\ AggregatorRan
    /\ \E e1, e2 \in events : \E i \in 1..NBuckets :
          /\ e1.kind = T_reject /\ e2.kind = T_muda
          /\ OfKey(e1, K1) /\ OfKey(e2, K1)
          /\ InBucket(e1, Today, i) /\ InBucket(e2, Today, i)
          /\ Rows(K1)[i][ColExceptions] = 2

----------------------------------------------------------------------------
(* C5 *)

\* C5: in every bucket the Bathroom, Break and System Slow columns are the
\* numbers of reason events of the key with that reason in the bucket, and
\* the orders and exceptions columns are what they are without any reason
\* event.
C5_ReasonsOwnColumn ==
    \A k \in KnownKeys :
        LET rows    == Rows(k)
            without == today_rows_for(events, {}, now, k.station, k.role, k.stamp).rows
            rk      == {r \in reasons : OfKey(r, k)}
            at      == Placement(rk, Today)
        IN  \A i \in 1..NBuckets :
               /\ rows[i][ColBathroom] =
                     Cardinality({p \in at : p[2] = i /\ p[1].reason = T_Bathroom})
               /\ rows[i][ColBreak] =
                     Cardinality({p \in at : p[2] = i /\ p[1].reason = T_Break})
               /\ rows[i][ColSystemSlow] =
                     Cardinality({p \in at : p[2] = i /\ p[1].reason = T_SystemSlow})
               /\ rows[i][ColOrders] = without[i][ColOrders]
               /\ rows[i][ColExceptions] = without[i][ColExceptions]

\* Bathroom and Break of one key in one hour: bathroom = 1, break = 1,
\* system_slow = 0, orders = 0
C5_Witness ==
    /\ AggregatorRan
    /\ \E r1, r2 \in reasons : \E i \in 1..NBuckets :
          /\ r1.reason = T_Bathroom /\ r2.reason = T_Break
          /\ OfKey(r1, K1) /\ OfKey(r2, K1)
          /\ InBucket(r1, Today, i) /\ InBucket(r2, Today, i)
          /\ Rows(K1)[i][ColBathroom] = 1 /\ Rows(K1)[i][ColBreak] = 1
          /\ Rows(K1)[i][ColSystemSlow] = 0 /\ Rows(K1)[i][ColOrders] = 0

----------------------------------------------------------------------------
(* C3 *)

\* the rows the aggregator has a column for: every count event, and the
\* reason events with one of the three reasons of REASONS
Counted(k) ==
    {e \in events : OfKey(e, k)}
    \cup {r \in reasons : OfKey(r, k) /\ r.reason \in Range(REASONS)}

\* the five counts of a row of the table, added up
RowTotal(row) ==
    row[ColOrders] + row[ColExceptions] + row[ColBathroom] + row[ColBreak]
    + row[ColSystemSlow]

\* C3: every event of the key whose local time lies in today's shift window
\* is counted once, in the bucket whose [start, end) contains its local time,
\* which is the bucket with index floor((local_time - start_local) / 1 hour);
\* an event outside the window is counted nowhere, and a bucket without an
\* event of the key is all-zero. (An event is a count event or a reason event
\* with one of the three reasons; a stored reason row with any other reason
\* has no column and is counted nowhere.)
C3_EachEventInItsBucket ==
    \A k \in KnownKeys :
        LET rows == Rows(k)
            at   == Placement(Counted(k), Today)
            s    == shift_bounds_local(Today)
            labels == fixed_hour_labels(Today)
        IN  /\ \A p \in at :
                  LET t == LocalFromUtc(p[1].ts_utc)
                  IN  IF s[1] <= t /\ t < s[2]
                      THEN p[2] = ((t - s[1]) \div MinutesPerHour) + 1
                      ELSE p[2] = 0
            /\ \A i \in 1..NBuckets :
                  /\ RowTotal(rows[i]) = Cardinality({p \in at : p[2] = i})
                  /\ \A col \in ColOrders..ColSystemSlow : rows[i][col] >= 0
                  /\ rows[i][1] = labels[i]

Label_6_7 ==
    <<"6", ":", "0", "0", " ", "A", "M", " ", "-", " ",
      "7", ":", "0", "0", " ", "A", "M">>

\* one order of the key at 06:30 local and nothing else: the row labelled
\* 6:00 AM - 7:00 AM has orders = 1 and zeros elsewhere, every other row is
\* all-zero
C3_Witness ==
    /\ AggregatorRan
    /\ reasons = {}
    /\ \E e \in events :
          /\ events = {e}
          /\ OfKey(e, K1) /\ e.kind = T_order /\ e.ts_utc = T0630
    /\ Today = 0
    /\ LET rows == Rows(K1)
       IN  /\ rows[2] = <<Label_6_7, 1, 0, 0, 0, 0>>
           /\ \A i \in 1..NBuckets : i # 2 => RowTotal(rows[i]) = 0

----------------------------------------------------------------------------
(* The corrections of /admin/adjust, seen as steps *)

\* the step is a correction that passed the checks and reached the store
Corrected ==
    /\ now' = now
    /\ last'.op = "adjust_hour"
    /\ last'.status = "panel"

TargetKey ==
    Selection(Strip(last'.req.station), Strip(last'.req.role), Strip(last'.req.stamp))

TargetKind == Strip(last'.req.kind)

TargetAction == Strip(last'.req.action)

\* the count of the form, as submitted
TargetCount == IntValue(Strip(last'.req.count))

\* the bucket (1..NBuckets) the form names by its 0-based hour_ix
TargetBucket == IntValue(Strip(last'.req.hour_ix)) + 1

TargetIsReason == StartsWith(TargetKind, T_reasonPrefix)

\* the count events of the table evs that match the form: same key, same
\* kind, local time in the bucket
TargetEvents(evs) ==
    IF TargetIsReason THEN {}
    ELSE {e \in evs : /\ OfKey(e, TargetKey) /\ e.kind = TargetKind
                      /\ InBucket(e, Today, TargetBucket)}

\* the reason events of the table rs that match the form
TargetReasons(rs) ==
    IF TargetIsReason
    THEN {r \in rs : /\ OfKey(r, TargetKey) /\ r.reason = ReasonOf(TargetKind)
                     /\ InBucket(r, Today, TargetBucket)}
    ELSE {}

\* the column of the table a kind or reason is counted in (0: none)
ColumnOf(kind) ==
    IF kind = T_order THEN ColOrders
    ELSE IF kind \in {T_reject, T_muda} THEN ColExceptions
    ELSE IF kind = T_reasonPrefix \o T_Bathroom THEN ColBathroom
    ELSE IF kind = T_reasonPrefix \o T_Break THEN ColBreak
    ELSE IF kind = T_reasonPrefix \o T_SystemSlow THEN ColSystemSlow
    ELSE 0

\* the rows the aggregator gives for the key of the form after the step
RowsAfter ==
    today_rows_for(events', reasons', now', TargetKey.station, TargetKey.role,
                   TargetKey.stamp).rows

\* the last request was a correction of the given action that reached the store
LastCorrection(action) ==
    /\ last.op = "adjust_hour"
    /\ last.status = "panel"
    /\ Strip(last.req.action) = action

----------------------------------------------------------------------------
(* C6 *)

\* C6: a remove with a count c in 1..99, when m rows match the form in the
\* target bucket, deletes exactly min(c, m) rows, all of them matching rows,
\* and answers with the panel: with c > m the m rows go, with m = 0 nothing
\* changes, and m - min(c, m) >= 0 matching rows are left.
C6_RemoveDeletesMin ==
    [][ (Corrected /\ TargetAction = T_remove /\ TargetCount \in 1..99) =>
          LET m      == Cardinality(TargetEvents(events))
                        + Cardinality(TargetReasons(reasons))
              gone_e == events \ events'
              gone_r == reasons \ reasons'
              left   == Cardinality(TargetEvents(events'))
                        + Cardinality(TargetReasons(reasons'))
          IN  /\ events' \subseteq events
              /\ reasons' \subseteq reasons
              /\ Cardinality(gone_e) + Cardinality(gone_r) = Min(TargetCount, m)
              /\ gone_e \subseteq TargetEvents(events)
              /\ gone_r \subseteq TargetReasons(reasons)
              /\ left = m - Min(TargetCount, m)
              /\ left >= 0
              /\ last'.n = Min(TargetCount, m)
      ]_vars

\* a remove asked for more rows than matched and deleted the ones there were
C6_Witness ==
    /\ LastCorrection(T_remove)
    /\ last.n >= 1
    /\ IntValue(Strip(last.req.count)) > last.n

----------------------------------------------------------------------------
(* C7 *)

\* C7: a remove deletes the newest matching rows of the target bucket: no
\* deleted row is older than a matching row that stays (removing c of m > c
\* leaves the m - c oldest), and every row of another bucket, another key,
\* another kind or reason, or of the other table, stays as it was.
C7_RemoveNewestFirst ==
    [][ (Corrected /\ TargetAction = T_remove) =>
          LET me     == TargetEvents(events)
              mr     == TargetReasons(reasons)
              gone_e == events \ events'
              gone_r == reasons \ reasons'
          IN  /\ events' = events \ gone_e
              /\ reasons' = reasons \ gone_r
              /\ gone_e \subseteq me
              /\ gone_r \subseteq mr
              /\ \A d \in gone_e : \A k \in me \ gone_e : d.ts_utc >= k.ts_utc
              /\ \A d \in gone_r : \A k \in mr \ gone_r : d.ts_utc >= k.ts_utc
              /\ events \ me \subseteq events'
              /\ reasons \ mr \subseteq reasons'
              /\ TargetIsReason => events' = events
              /\ ~TargetIsReason => reasons' = reasons
      ]_vars

\* one of two Break rows of a bucket was removed, the one tapped at 06:30:
\* the older one, which a correction placed at 06:01, is the one left
C7_Witness ==
    /\ LastCorrection(T_remove)
    /\ last.n = 1
    /\ Strip(last.req.kind) = T_reasonPrefix \o T_Break
    /\ last.today = Today
    /\ events = {}
    /\ \E r \in reasons :
          /\ reasons = {r}
          /\ OfKey(r, K1) /\ r.reason = T_Break
          /\ r.ts_utc = utc_from_local(BucketLo(Today, 2)) + 1
    /\ now = T0630

----------------------------------------------------------------------------
(* C8 *)

\* C8: an add with a count c in 1..99 inserts exactly c new rows, all with
\* the key and the kind or reason of the form and with the timestamp one
\* minute after the start of the target bucket, and deletes none; the count
\* the aggregator shows for the key in the column of that kind or reason
\* rises by c in the target bucket, and no other cell of the key's table
\* changes. (A reason outside REASONS has no column: its rows are inserted
\* and no cell changes.)
C8_AddInsertsAtBucketStart ==
    [][ (Corrected /\ TargetAction = T_add /\ TargetCount \in 1..99) =>
          LET key    == TargetKey
              kind   == TargetKind
              c      == TargetCount
              bucket == TargetBucket
              new_e  == events' \ events
              new_r  == reasons' \ reasons
              ts     == utc_from_local(BucketLo(Today, bucket)) + 1
              col    == ColumnOf(kind)
          IN  /\ events \subseteq events'
              /\ reasons \subseteq reasons'
              /\ Cardinality(new_e) + Cardinality(new_r) = c
              /\ TargetIsReason => new_e = {}
              /\ ~TargetIsReason => new_r = {}
              /\ \A x \in new_e : /\ OfKey(x, key) /\ x.kind = kind
                                  /\ x.ts_utc = ts
                                  /\ InBucket(x, Today, bucket)
              /\ \A x \in new_r : /\ OfKey(x, key)
                                  /\ x.reason = ReasonOf(kind)
                                  /\ x.ts_utc = ts
                                  /\ InBucket(x, Today, bucket)
              /\ \A rows0 \in {Rows(key)} : \A rows1 \in {RowsAfter} :
                 \A i \in 1..NBuckets :
                    /\ rows1[i][ColOrders] = rows0[i][ColOrders]
                          + (IF i = bucket /\ col = ColOrders THEN c ELSE 0)
                    /\ rows1[i][ColExceptions] = rows0[i][ColExceptions]
                          + (IF i = bucket /\ col = ColExceptions THEN c ELSE 0)
                    /\ rows1[i][ColBathroom] = rows0[i][ColBathroom]
                          + (IF i = bucket /\ col = ColBathroom THEN c ELSE 0)
                    /\ rows1[i][ColBreak] = rows0[i][ColBreak]
                          + (IF i = bucket /\ col = ColBreak THEN c ELSE 0)
                    /\ rows1[i][ColSystemSlow] = rows0[i][ColSystemSlow]
                          + (IF i = bucket /\ col = ColSystemSlow THEN c ELSE 0)
      ]_vars

\* two Break rows were added to a bucket that had none: the Break column of
\* that bucket went from 0 to 2
C8_Witness ==
    /\ LastCorrection(T_add)
    /\ last.n = 2
    /\ Strip(last.req.kind) = T_reasonPrefix \o T_Break
    /\ last.today = Today
    /\ LET i == IntValue(Strip(last.req.hour_ix)) + 1
       IN  /\ last.before[i][ColBreak] = 0
           /\ Rows(K1)[i][ColBreak] = 2

----------------------------------------------------------------------------
(* C9 *)

\* C9: an add directly followed by a remove with the same key, kind or
\* reason, bucket and count, on the same local date, leaves the table the
\* aggregator gives for the key as it was before the add: the count of the
\* column, and of every other column, in the target bucket and in every
\* other bucket.
C9_AddThenRemoveRoundTrip ==
    [][ ( /\ LastCorrection(T_add)
          /\ Corrected
          /\ TargetAction = T_remove
          /\ last'.req = [last.req EXCEPT !.action = last'.req.action]
          /\ last.today = Today ) =>
          RowsAfter = last.before
      ]_vars

\* an order was tapped at 06:30, one was added at 06:01, one was removed: the
\* tapped one went, the added one stays, the count is what it was
C9_Witness ==
    /\ LastCorrection(T_remove)
    /\ last.follows_add
    /\ last.n = 1
    /\ Strip(last.req.kind) = T_order
    /\ \E e \in events :
          /\ events = {e}
          /\ OfKey(e, K1)
          /\ e.ts_utc = utc_from_local(BucketLo(Today, 2)) + 1
    /\ Rows(K1)[2][ColOrders] = 1

----------------------------------------------------------------------------
(* C10 *)

\* the session holds an admin token that has not expired
TokenValid ==
    /\ admin_until # <<>>
    /\ Len(admin_until) = 3
    /\ admin_until[2] < 24
    /\ now < admin_until[1] * MinutesPerDay + admin_until[2] * MinutesPerHour
             + admin_until[3]

\* C10: a request to /admin/adjust made without a token, with an expired
\* token or with one that does not parse is redirected to the login page and
\* leaves both tables unchanged, so a correction changes a table only under
\* an unexpired token; with an unexpired token the request is not sent to the
\* login page. The token changes only in two ways: a login whose password
\* equals a configured ADMIN_PASS sets its expiry to the instant of the login
\* plus SESSION_HOURS = 2 hours (it counts while utcnow is before that
\* instant), and a logout removes it.
C10_AdjustNeedsToken ==
    [][ LET expiry  == now + 2 * 60
            token   == <<expiry \div 1440, (expiry % 1440) \div 60, expiry % 60>>
            granted == /\ now' = now
                       /\ last'.op = "login"
                       /\ last'.req.method = "POST"
                       /\ admin_pass # Empty
                       /\ last'.req.password = admin_pass
            revoked == now' = now /\ last'.op = "logout"
        IN  /\ (now' = now /\ last'.op = "adjust_hour") =>
                  IF TokenValid
                  THEN last'.status # "redirect login"
                  ELSE /\ last'.status = "redirect login"
                       /\ events' = events
                       /\ reasons' = reasons
            /\ granted => admin_until' = token
            /\ revoked => admin_until' = <<>>
            /\ admin_until' # admin_until => granted \/ revoked
      ]_vars

\* a correction arrived exactly two hours after the login that granted the
\* token: it was sent to the login page
C10_Witness ==
    /\ last.op = "adjust_hour"
    /\ last.status = "redirect login"
    /\ admin_until = <<0, 12, 30>>
    /\ now = T0630
    /\ events = {}

----------------------------------------------------------------------------
(* The manager's side: forms that do not pass the validation *)

MaxRowsVal == 2

MaxIdVal == 2

\* after the step the tables hold at most maxRows rows with ids up to maxId
StoreWithin(maxRows, maxId) ==
    /\ RowCount' <= maxRows
    /\ \A e \in events' : e.id <= maxId
    /\ \A r \in reasons' : r.id <= maxId

\* the form for key K1 with one field replaced
FormK1(kind, action, count, hour_ix) ==
    Request(T_BTEn1, T_Shipper, T_1234, kind, action, count, hour_ix)

GoodForm == FormK1(T_order, T_add, <<"1">>, <<"1">>)

\* forms that pass: add or remove one order in the second or the last hour,
\* with the count left out, with blanks around a field
FormsValGood ==
    {GoodForm,
     [GoodForm EXCEPT !.action = T_remove],
     [GoodForm EXCEPT !.hour_ix = <<"1", "3">>],
     [GoodForm EXCEPT !.count = Empty],
     [GoodForm EXCEPT !.stamp = <<" ", "1", "2", "3", "4", " ">>],
     [GoodForm EXCEPT !.kind = T_reasonBreak]}

\* forms with one field that does not pass
FormsValBad ==
    {[GoodForm EXCEPT !.station = Empty],
     [GoodForm EXCEPT !.station = <<" ", " ">>],
     [GoodForm EXCEPT !.role = Empty],
     [GoodForm EXCEPT !.stamp = Empty],
     [GoodForm EXCEPT !.stamp = <<"1", "2", "3">>],
     [GoodForm EXCEPT !.stamp = <<"1", "2", "3", "4", "5">>],
     [GoodForm EXCEPT !.stamp = <<"1", "2", "a", "4">>],
     [GoodForm EXCEPT !.count = <<"x">>],
     [GoodForm EXCEPT !.count = <<"1", ".", "5">>],
     [GoodForm EXCEPT !.count = <<" ">>],
     [GoodForm EXCEPT !.hour_ix = Empty],
     [GoodForm EXCEPT !.hour_ix = <<"x">>],
     [GoodForm EXCEPT !.hour_ix = <<"-", "1">>],
     [GoodForm EXCEPT !.hour_ix = <<"1", "4">>],
     [GoodForm EXCEPT !.kind = Empty],
     [GoodForm EXCEPT !.kind = <<"s", "c", "r", "a", "p">>],
     [GoodForm EXCEPT !.kind = <<"r", "e", "a", "s", "o", "n">>],
     [GoodForm EXCEPT !.action = Empty],
     [GoodForm EXCEPT !.action = <<"d", "e", "l", "e", "t", "e">>],
     [GoodForm EXCEPT !.action = T_remove, !.stamp = <<"1", "2", "3">>],
     [GoodForm EXCEPT !.action = T_remove, !.hour_ix = <<"1", "4">>]}

InitVal == InitAt(T0630, T_secret)

NextVal ==
    \/ login("POST", T_secret)
    \/ logout
    \/ tap_order(K1) /\ StoreWithin(MaxRowsVal, MaxIdVal)
    \/ \E f \in FormsValGood : adjust_hour(f) /\ StoreWithin(MaxRowsVal, MaxIdVal)
    \/ \E f \in FormsValBad : adjust_hour(f)

SpecVal == InitVal /\ [][NextVal]_vars

----------------------------------------------------------------------------
(* C11 *)

\* the text is exactly four digits
FourDigits(t) == Len(t) = 4 /\ \A i \in 1..4 : t[i] \in Digits

\* the form fails one of the validations the panel makes: an empty station or
\* role, a stamp that is not exactly 4 digits, a count or hour index that is
\* not an integer, an hour index outside 0..NBuckets - 1, a kind that is
\* neither order, reject, muda nor a reason tag, an action other than add or
\* remove
InvalidForm(f) ==
    LET count_s == IF f.count = Empty THEN <<"1">> ELSE f.count
    IN  \/ Strip(f.station) = Empty
        \/ Strip(f.role) = Empty
        \/ ~FourDigits(Strip(f.stamp))
        \/ ~IntParses(count_s)
        \/ ~IntParses(f.hour_ix)
        \/ IntValue(f.hour_ix) \notin 0..(NBuckets - 1)
        \/ /\ Strip(f.kind) \notin {T_order, T_reject, T_muda}
           /\ ~StartsWith(Strip(f.kind), T_reasonPrefix)
        \/ Strip(f.action) \notin {T_add, T_remove}

\* C11: a request to /admin/adjust made under an unexpired token whose form
\* has an empty station or role, a stamp that is not exactly 4 digits, a
\* non-integer count or hour index, an hour index outside the buckets, an
\* unknown kind or an action other than add or remove is redirected to the
\* panel and leaves both tables exactly as they were.
C11_InvalidFormIsNoOp ==
    [][ (now' = now /\ last'.op = "adjust_hour" /\ TokenValid
         /\ InvalidForm(last'.req)) =>
          /\ last'.status = "redirect panel"
          /\ events' = events
          /\ reasons' = reasons
      ]_vars

\* a remove whose hour index is one past the last bucket met a table with a
\* row in it and was sent back to the panel
C11_Witness ==
    /\ last.op = "adjust_hour"
    /\ last.status = "redirect panel"
    /\ last.req = [GoodForm EXCEPT !.action = T_remove, !.hour_ix = <<"1", "4">>]
    /\ events # {}
    /\ TokenValid

----------------------------------------------------------------------------
(* The manager's side: counts outside 1..99 *)

\* the tables hold at most MaxRowsLow rows, with ids up to MaxIdLow, after a
\* form with a count below 1
MaxRowsLow == 2

MaxIdLow == 3

MaxRowsClamp == 100

MaxIdClamp == 100

\* forms with a count below 1
FormsClampLow ==
    {FormK1(T_order, action, count, <<"1">>) :
        action \in {T_add, T_remove}, count \in {<<"0">>, <<"-", "5">>}}

\* forms with a count above 99
FormsClampHigh ==
    {FormK1(T_order, action, <<"1", "0", "0">>, <<"1">>) : action \in {T_add, T_remove}}

InitClamp == InitAt(T0630, T_secret)

NextClamp ==
    \/ login("POST", T_secret)
    \/ \E f \in FormsClampLow : adjust_hour(f) /\ StoreWithin(MaxRowsLow, MaxIdLow)
    \/ \E f \in FormsClampHigh : adjust_hour(f) /\ StoreWithin(MaxRowsClamp, MaxIdClamp)

SpecClamp == InitClamp /\ [][NextClamp]_vars

----------------------------------------------------------------------------
(* C12 *)

\* the count a form with the integer count c is carried out with
Effective(c) == IF c < 1 THEN 1 ELSE IF c > 99 THEN 99 ELSE c

\* C12: a correction with the submitted integer count c is carried out with
\* max(1, min(99, c)): an add inserts exactly that many rows and deletes
\* none, so at least 1 and never more than 99; a remove deletes that many of
\* the m matching rows, or all m when they are fewer, so never more than 99,
\* and inserts none.
C12_CountIsClamped ==
    [][ Corrected =>
          LET c      == TargetCount
              m      == Cardinality(TargetEvents(events))
                        + Cardinality(TargetReasons(reasons))
              new    == Cardinality(events' \ events) + Cardinality(reasons' \ reasons)
              gone   == Cardinality(events \ events') + Cardinality(reasons \ reasons')
          IN  IF TargetAction = T_add
              THEN /\ new = Effective(c) /\ gone = 0
                   /\ 1 <= new /\ new <= 99
                   /\ last'.n = new
              ELSE /\ gone = Min(Effective(c), m) /\ new = 0
                   /\ gone <= 99
                   /\ last'.n = gone ]_vars

\* a remove with the count 100 found 100 matching rows, deleted 99 of them
\* and left one
C12_Witness ==
    /\ LastCorrection(T_remove)
    /\ last.req.count = <<"1", "0", "0">>
    /\ last.n = 99
    /\ Cardinality(events) = 1
    /\ reasons = {}


----------------------------------------------------------------------------
(* C13 *)

\* a request to adjust_hour that held a valid token and whose count is an
\* integer outside 1..99
OutOfRangeCount ==
    /\ now' = now
    /\ last'.op = "adjust_hour"
    /\ TokenValid
    /\ last'.req.count # Empty
    /\ IntParses(Strip(last'.req.count))
    /\ TargetCount \notin 1..99

\* C13 as stated: a count below 1 or above 99 is a validation error; the
\* request is turned down before the store is touched and both tables stay
\* as they were.
C13_OutOfRangeCountRejected ==
    [][ OutOfRangeCount =>
          /\ last'.status = "redirect panel"
          /\ events' = events
          /\ reasons' = reasons ]_vars

\* C13 amended: a count below 1 or above 99 is not a validation error; a
\* form that is valid in its other fields is accepted with such a count and
\* carried out: an add inserts rows, a remove deletes matching rows when
\* there are any.
C13_OutOfRangeCountAccepted ==
    [][ (OutOfRangeCount /\ ~InvalidForm(last'.req)) =>
          LET m == Cardinality(TargetEvents(events))
                   + Cardinality(TargetReasons(reasons))
          IN  /\ last'.status = "panel"
              /\ TargetAction = T_add =>
                    /\ events \subseteq events' /\ reasons \subseteq reasons'
                    /\ <<events', reasons'>> # <<events, reasons>>
              /\ (TargetAction = T_remove /\ m > 0) =>
                    /\ events' \subseteq events /\ reasons' \subseteq reasons
                    /\ <<events', reasons'>> # <<events, reasons>> ]_vars

\* an add with the count 0 was accepted and inserted a row
C13_Witness ==
    /\ LastCorrection(T_add)
    /\ last.req.count = <<"0">>
    /\ last.n = 1
    /\ events # {}


----------------------------------------------------------------------------
(* C14 *)

\* C14: a request to adjust_hour whose kind is a reason tag naming a reason
\* outside REASONS is turned down, so the manager's panel never inserts and
\* never deletes a row of ReasonEvent with such a reason.
C14_UnknownReasonRejected ==
    [][ (/\ now' = now
         /\ last'.op = "adjust_hour"
         /\ TokenValid
         /\ TargetIsReason
         /\ ReasonOf(TargetKind) \notin Range(REASONS)) =>
          /\ last'.status = "redirect panel"
          /\ events' = events
          /\ reasons' = reasons
          /\ \A r \in (reasons' \ reasons) \cup (reasons \ reasons') :
                r.reason \in Range(REASONS) ]_vars


----------------------------------------------------------------------------
(* The manager's side: delete-latest *)

MaxRowsDel == 3

MaxIdDel == 3

ClockDel == {T0630, T0645}

\* the forms of delete-latest: two keys, a count kind and a reason
FormsDel ==
    {Request(K1.station, K1.role, K1.stamp, T_order, Empty, Empty, Empty),
     Request(K2.station, K2.role, K2.stamp, T_order, Empty, Empty, Empty),
     Request(K1.station, K1.role, K1.stamp, T_reasonBreak, Empty, Empty, Empty)}

\* the day starts at 04:30, before the shift
InitDel == InitAt(T0430, T_secret)

NextDel ==
    \/ Tick(ClockDel)
    \/ login("POST", T_secret)
    \/ \E k \in {K1, K2} : tap_order(k) /\ StoreWithin(MaxRowsDel, MaxIdDel)
    \/ tap_reason(K1, T_Break) /\ StoreWithin(MaxRowsDel, MaxIdDel)
    \/ \E f \in FormsDel : delete_latest(f)

SpecDel == InitDel /\ [][NextDel]_vars

----------------------------------------------------------------------------
(* C15 *)

\* the rows of the two tables that match a delete-latest form: same key,
\* same kind or reason, inside today's shift window
DelMatching(f) ==
    {x \in events : OfKey(x, Selection(f.station, f.role, f.stamp))
                    /\ x.kind = f.kind /\ InShift(x, Today)}
    \cup {x \in reasons : OfKey(x, Selection(f.station, f.role, f.stamp))
                          /\ f.kind = T_reasonPrefix \o x.reason /\ InShift(x, Today)}

\* C15: a call of delete-latest under a valid token inserts nothing and
\* deletes at most one row. When rows match inside today's shift window it
\* deletes exactly one of them, one with the greatest timestamp; when none
\* matches it reports nothing found and changes nothing. A call that follows
\* a deleting call of the same form deletes a row that is not newer than the
\* one deleted before, so n matching rows go in descending order of
\* timestamp and the calls after the n-th find nothing.
C15_DeleteLatest ==
    [][ (now' = now /\ last'.op = "delete_latest" /\ TokenValid) =>
          \A M \in {DelMatching(last'.req)} :
          \A gone \in {(events \ events') \cup (reasons \ reasons')} :
              /\ events' \subseteq events /\ reasons' \subseteq reasons
              /\ Cardinality(gone) <= 1
              /\ M # {} =>
                    /\ last'.status = "deleted"
                    /\ Cardinality(gone) = 1
                    /\ gone \subseteq M
                    /\ \A d \in gone : \A x \in M : d.ts_utc >= x.ts_utc
                    /\ last'.before = <<CHOOSE d \in gone : TRUE>>
                    /\ (/\ last.op = "delete_latest" /\ last.status = "deleted"
                        /\ last.req = last'.req /\ last.today = last'.today) =>
                          \A d \in gone : d.ts_utc <= last.before[1].ts_utc
              /\ M = {} =>
                    /\ last'.status = "nothing found"
                    /\ gone = {} ]_vars

\* of the orders tapped at 04:30, 06:30 and 06:45 the first call deleted the
\* one of 06:45; the one of 06:30 and the one before the shift are left
C15_Witness ==
    /\ last.op = "delete_latest"
    /\ last.status = "deleted"
    /\ last.before[1].ts_utc = T0645
    /\ {e.ts_utc : e \in events} = {T0430, T0630}
    /\ \A e \in events : OfKey(e, K1) /\ e.kind = T_order

\* a call at 06:45 found nothing although an order of the key, tapped before
\* the shift, is in the table: it is not touched
C15_WitnessNothingFound ==
    /\ last.op = "delete_latest"
    /\ last.status = "nothing found"
    /\ {e.ts_utc : e \in events} = {T0430}
    /\ now = T0645


----------------------------------------------------------------------------
(* The dashboard's side *)

MaxRowsDash == 2

MaxIdDash == 2

ClockDash == {T0630, T0910}

T_Lead == <<"L", "e", "a", "d">>

T_Dock == <<"D", "o", "c", "k">>

\* selections: a role outside ROLES, a station outside STATIONS, a second
\* verifier
KLead == Selection(T_BTEn1, T_Lead, T_1234)

KDock == Selection(T_Dock, T_Shipper, T_1234)

KVer2 == Selection(T_BTEn1, T_Verifier2, T_1234)

\* the day starts at 04:30, before the shift
InitDash == InitAt(T0430, T_secret)

NextDash ==
    \/ Tick(ClockDash)
    \/ \E k \in {K1, K2, K3, KLead, KDock, KVer2} :
          tap_order(k) /\ StoreWithin(MaxRowsDash, MaxIdDash)
    \/ tap_reject(K1) /\ StoreWithin(MaxRowsDash, MaxIdDash)
    \/ tap_reason(K2, T_Break) /\ StoreWithin(MaxRowsDash, MaxIdDash)
    \/ \E station \in {Empty, T_BTEn1, T_BTEn2} : dashboard(station)

SpecDash == InitDash /\ [][NextDash]_vars

----------------------------------------------------------------------------
(* C16 *)

\* the orders of shippers at the station inside today's shift window
ShippedAt(station) ==
    {e \in events : /\ e.role = T_Shipper /\ e.kind = T_order
                    /\ e.station = station /\ InShift(e, Today)}

\* C16: when the dashboard has been computed, station_totals has exactly one
\* entry for every station of STATIONS and no other entry, and the entry of a
\* station is the number of events of role Shipper and kind order at that
\* station with a timestamp in today's shift window, 0 when there is none;
\* events of other roles or kinds, outside the window or at a station outside
\* STATIONS are in no entry.
C16_StationTotals ==
    last.op = "dashboard" =>
        LET totals == station_totals(events, now)
        IN  /\ Len(totals) = Len(STATIONS)
            /\ \A i \in 1..Len(STATIONS) :
                  Cardinality({j \in 1..Len(totals) : totals[j][1] = STATIONS[i]}) = 1
            /\ \A j \in 1..Len(totals) :
                  /\ totals[j][1] \in Range(STATIONS)
                  /\ totals[j][2] = Cardinality(ShippedAt(totals[j][1]))

\* the dashboard was computed with one order of a shipper at BTEn-1 in the
\* shift and an order of another role at BTEn-1: the entry of BTEn-1 is 1
C16_Witness ==
    /\ last.op = "dashboard"
    /\ Cardinality(ShippedAt(T_BTEn1)) = 1
    /\ \E e \in events : e.station = T_BTEn1 /\ e.role = T_Lead /\ InShift(e, Today)
    /\ station_totals(events, now)[1] = <<T_BTEn1, 1>>


----------------------------------------------------------------------------
(* C17 *)

\* the station the dashboard was asked for
Selected == last.req.station

\* the answer of the dashboard for the selected station
Details == station_details(events, reasons, now, Selected)

\* the (stamp, role) pairs that have a count event or a reason event of the
\* selected station in bucket i
PeopleIn(i) ==
    {<<e.stamp, e.role>> : e \in {x \in events : x.station = Selected
                                                  /\ InBucket(x, Today, i)}}
    \cup {<<r.stamp, r.role>> : r \in {x \in reasons : x.station = Selected
                                                        /\ InBucket(x, Today, i)}}

\* the precedence of the roles: Shipper, Verifier 1, Verifier 2, any other
Precedence(role) ==
    IF role = T_Shipper THEN 1
    ELSE IF role = T_Verifier1 THEN 2
    ELSE IF role = T_Verifier2 THEN 3
    ELSE 4

\* C17: when the dashboard has been computed for a station, the rows of every
\* hour group are one for each distinct (stamp, role) that has an event of
\* the station in that hour and no other, and they come by the precedence of
\* their roles, Shipper before Verifier 1 before Verifier 2 before any other
\* role, and by ascending stamp among rows of equal precedence.
C17_RowsOfAGroup ==
    (last.op = "dashboard" /\ Selected # Empty) =>
        \A details \in {Details} : \A i \in 1..Len(details) :
            LET rows == details[i].rows
            IN  /\ {<<rows[j].stamp, rows[j].role>> : j \in 1..Len(rows)} = PeopleIn(i)
                /\ Len(rows) = Cardinality(PeopleIn(i))
                /\ \A j, k \in 1..Len(rows) :
                      j < k =>
                        \/ Precedence(rows[j].role) < Precedence(rows[k].role)
                        \/ /\ Precedence(rows[j].role) = Precedence(rows[k].role)
                           /\ DigitsValue(rows[j].stamp) <= DigitsValue(rows[k].stamp)

\* the group of 6 to 7 AM of BTEn-1 has the shipper of stamp 5678 before the
\* worker of stamp 1234 whose role is not in ROLES
C17_Witness ==
    /\ last.op = "dashboard"
    /\ Selected = T_BTEn1
    /\ Len(Details[2].rows) = 2
    /\ Details[2].rows[1].role = T_Shipper
    /\ Details[2].rows[1].stamp = T_5678
    /\ Details[2].rows[2].role = T_Lead
    /\ Details[2].rows[2].stamp = T_1234

----------------------------------------------------------------------------
(* C18 *)

\* C18: when the dashboard has been computed for a station, station_details
\* has exactly one group for every hour bucket of the shift, in the order of
\* the buckets, each with the label of its bucket; the group of a bucket in
\* which the station has no event has no rows.
C18_OneGroupPerBucket ==
    (last.op = "dashboard" /\ Selected # Empty) =>
        \A details \in {Details} :
            /\ Len(details) = NBuckets
            /\ last.n = NBuckets
            /\ \A i \in 1..NBuckets :
                  /\ details[i].hour
                       = HourLabel(<<BucketLo(Today, i), BucketHi(Today, i)>>)
                  /\ PeopleIn(i) = {} => details[i].rows = <<>>

\* the dashboard of BTEn-1 with a tap at 06:30 and none at another hour: the
\* group of 6 to 7 AM has a row and the thirteen others are there, empty
C18_Witness ==
    /\ last.op = "dashboard"
    /\ Selected = T_BTEn1
    /\ Len(Details) = NBuckets
    /\ Details[2].rows # <<>>
    /\ \A i \in (1..NBuckets) \ {2} : Details[i].rows = <<>>


----------------------------------------------------------------------------
(* The live count of the current hour *)

MaxRowsLive == 2

MaxIdLive == 2

ClockLive == {T0630, T0910}

\* corrections of the orders of K1 in the bucket of 6 to 7 AM and in the
\* bucket of 10 to 11 AM
FormsLive ==
    {FormK1(T_order, action, <<"1">>, hour_ix) :
        action \in {T_add, T_remove}, hour_ix \in {<<"1">>, <<"5">>}}

\* the day starts at 04:30, before the shift
InitLive == InitAt(T0430, T_secret)

NextLive ==
    \/ Tick(ClockLive)
    \/ login("POST", T_secret)
    \/ \E k \in {K1, K2} : home(k)
    \/ \E k \in {K1, K2} : tap_order(k) /\ StoreWithin(MaxRowsLive, MaxIdLive)
    \/ tap_reject(K1) /\ StoreWithin(MaxRowsLive, MaxIdLive)
    \/ \E f \in FormsLive : adjust_hour(f) /\ StoreWithin(MaxRowsLive, MaxIdLive)

SpecLive == InitLive /\ [][NextLive]_vars

----------------------------------------------------------------------------
(* C19 *)

\* the start of the current hour on the local wall clock
HourStartLocal == now_local(now) - (now_local(now) % MinutesPerHour)

\* the orders of key k whose local time is not before the start of the
\* current hour
OrdersSinceHourStart(k) ==
    {e \in events : /\ OfKey(e, k) /\ e.kind = T_order
                    /\ LocalFromUtc(e.ts_utc) >= HourStartLocal}

\* the live count the aggregator gives for key k in the current state
LiveCount(k) ==
    today_rows_for(events, reasons, now, k.station, k.role, k.stamp).hour_order_count

\* C19: the live count of the current hour that today_rows_for gives for a
\* key is the number of order events of the key whose timestamp is not before
\* the start of the current wall-clock hour, whatever lies after it: orders of
\* a later bucket and orders outside the shift window count, so the count may
\* differ from the row of the current hour's bucket.
C19_LiveCount ==
    AggregatorRan =>
        \A k \in KnownKeys : LiveCount(k) = Cardinality(OrdersSinceHourStart(k))

\* at 06:30 the only order of K1 is one a correction put into the bucket of
\* 10 to 11 AM: the live count is 1 and the row of 6 to 7 AM has no order
C19_Witness ==
    /\ now = T0630
    /\ last.op = "home" /\ last.status = "rows" /\ last.req = K1
    /\ Cardinality(events) = 1
    /\ \A e \in events : OfKey(e, K1) /\ e.kind = T_order /\ InBucket(e, Today, 6)
    /\ LiveCount(K1) = 1
    /\ Rows(K1)[2][ColOrders] = 0

\* at 04:30, before the shift, an order was tapped: the live count is 1 and
\* no row has an order
C19_WitnessOutsideShift ==
    /\ now = T0430
    /\ last.op = "tap_order" /\ last.status = "ok" /\ last.req = K1
    /\ LiveCount(K1) = 1
    /\ SumColumn(Rows(K1), ColOrders, NBuckets) = 0


----------------------------------------------------------------------------
(* The worker's side: taps *)

MaxRowsTap == 2

MaxIdTap == 2

ClockTap == {T0645}

\* a selection with a stamp of five digits
FiveDigits == Selection(T_BTEn1, T_Shipper, <<"1", "2", "3", "4", "5">>)

\* the cookies of a tap: valid selections, of which two name a station or a
\* role outside the lists, and selections that miss a part or whose stamp is
\* not four digits
SelectionsTap ==
    {K1, KDock, KLead,
     Selection(Empty, T_Shipper, T_1234),
     Selection(T_BTEn1, Empty, T_1234),
     Selection(T_BTEn1, T_Shipper, Empty),
     Selection(T_BTEn1, T_Shipper, <<"1", "2", "3">>),
     FiveDigits,
     Selection(T_BTEn1, T_Shipper, <<"1", "2", "a", "4">>)}

\* the reason field of a tap
ReasonsTap == {T_Break, <<" ">> \o T_SystemSlow \o <<" ">>, T_Lunch, Empty}

InitTap == InitAt(T0630, T_secret)

NextTap ==
    \/ Tick(ClockTap)
    \/ \E c \in SelectionsTap : tap_order(c) /\ StoreWithin(MaxRowsTap, MaxIdTap)
    \/ \E c \in {K1, FiveDigits} : tap_reject(c) /\ StoreWithin(MaxRowsTap, MaxIdTap)
    \/ \E c \in {K1, FiveDigits} : tap_muda(c) /\ StoreWithin(MaxRowsTap, MaxIdTap)
    \/ \E c \in {K1, KLead, Selection(Empty, T_Shipper, T_1234)} :
          \E reason \in ReasonsTap :
             tap_reason(c, reason) /\ StoreWithin(MaxRowsTap, MaxIdTap)

SpecTap == InitTap /\ [][NextTap]_vars

----------------------------------------------------------------------------
(* C20 *)

\* the kind a tap route writes
KindOfTap(op) ==
    IF op = "tap_order" THEN T_order
    ELSE IF op = "tap_reject" THEN T_reject
    ELSE T_muda

\* C20: a tap whose selection has no station or no role or a stamp that is
\* not exactly four digits, and a tap of a reason that is not one of REASONS,
\* is answered with 400 and inserts nothing. Any other tap inserts exactly one
\* row, of the tapped kind or reason, with the selection as it came and the
\* current instant as its timestamp, and deletes nothing; the station and the
\* role are not compared with STATIONS and ROLES.
C20_Taps ==
    [][ (now' = now /\ last'.op \in {"tap_order", "tap_reject", "tap_muda", "tap_reason"}) =>
          LET c          == last'.req
              is_reason  == last'.op = "tap_reason"
              incomplete == c.station = Empty \/ c.role = Empty \/ ~FourDigits(c.stamp)
              unknown    == is_reason /\ Strip(c.kind) \notin Range(REASONS)
              new_e      == events' \ events
              new_r      == reasons' \ reasons
          IN  IF incomplete \/ unknown
              THEN /\ last'.status \in {"400 missing-selections", "400 invalid-reason"}
                   /\ events' = events
                   /\ reasons' = reasons
              ELSE /\ last'.status = "ok"
                   /\ events \subseteq events' /\ reasons \subseteq reasons'
                   /\ Cardinality(new_e) + Cardinality(new_r) = 1
                   /\ \A x \in new_e :
                         /\ ~is_reason
                         /\ x.kind = KindOfTap(last'.op)
                         /\ <<x.station, x.role, x.stamp>> = <<c.station, c.role, c.stamp>>
                         /\ x.ts_utc = now
                   /\ \A x \in new_r :
                         /\ is_reason
                         /\ x.reason = Strip(c.kind)
                         /\ <<x.station, x.role, x.stamp>> = <<c.station, c.role, c.stamp>>
                         /\ x.ts_utc = now ]_vars

\* an order was tapped at 06:45 with a station that is not in STATIONS: the
\* row is in the table, with that station and that instant
C20_Witness ==
    /\ last.op = "tap_order" /\ last.status = "ok" /\ last.req = KDock
    /\ now = T0645
    /\ \E e \in events : e.station = T_Dock /\ e.ts_utc = T0645 /\ e.kind = T_order
    /\ T_Dock \notin Range(STATIONS)

\* a tap with a stamp of five digits was answered with 400 while a row was
\* in the table
C20_WitnessRejected ==
    /\ last.op = "tap_muda" /\ last.status = "400 missing-selections"
    /\ Len(last.req.stamp) = 5
    /\ events # {}


----------------------------------------------------------------------------
(* The worker's side: taps that run at the same time *)

\* the number of taps that are served step by step
MaxTaps == 3

ClockConc == {T0645}

\* the table Event before the taps: an order of K1 tapped at 05:00
PriorEvents == {Event({}, K1.station, K1.role, K1.stamp, T_order, T0500)}

InitConc ==
    /\ flight = <<>>
    /\ now = T0630
    /\ events = PriorEvents
    /\ reasons = {}
    /\ admin_pass = T_secret
    /\ admin_until = <<>>
    /\ last = [op |-> "none", status |-> "none", req |-> NoRequest, n |-> 0,
               today |-> DateOf(now_local(T0630)), before |-> <<>>,
               follows_add |-> FALSE]

NextConc ==
    \/ Tick(ClockConc)
    \/ \E c \in {K1, K3, FiveDigits} :
          /\ Len(flight) < MaxTaps
          /\ tap_begin("tap_order", c, Empty)
    \/ \E reason \in {T_Break, T_Lunch} :
          /\ Len(flight) < MaxTaps
          /\ tap_begin("tap_reason", K1, reason)
    \/ \E i \in 1..MaxTaps : tap_commit(i)
    \/ \E i \in 1..MaxTaps : tap_respond(i)

SpecConc == InitConc /\ [][NextConc]_vars

----------------------------------------------------------------------------
(* C21 *)

\* the taps that have committed
Committed == {i \in 1..Len(flight) : flight[i].pc \in {"committed", "done"}}

\* the row of the tables that the i-th tap wrote
RowsOfTap(i) ==
    IF flight[i].op = "tap_reason"
    THEN {r \in reasons : /\ r.id = flight[i].id
                          /\ OfKey(r, flight[i].req)
                          /\ r.reason = flight[i].kind
                          /\ r.ts_utc = flight[i].ts_utc}
    ELSE {e \in events : /\ e.id = flight[i].id
                         /\ OfKey(e, flight[i].req)
                         /\ e.kind = flight[i].kind
                         /\ e.ts_utc = flight[i].ts_utc}

\* C21: however the steps of the taps interleave, every tap that has
\* committed has its own row in the store, with the selection, the kind or
\* reason and the instant of that tap; the rows of two taps are two rows; the
\* rows that were in the store before are all there, as they were; and the
\* store holds nothing else, so once all taps have committed it holds one new
\* row for each.
C21_ConcurrentTaps ==
    /\ \A i \in Committed : Cardinality(RowsOfTap(i)) = 1
    /\ \A i, j \in Committed : i # j => RowsOfTap(i) # RowsOfTap(j)
    /\ PriorEvents \subseteq events
    /\ Cardinality(events) + Cardinality(reasons)
         = Cardinality(PriorEvents) + Cardinality(Committed)

\* three orders of K1 were tapped in the same minute; the one that began
\* first committed last, and the table has the three rows and the earlier one
C21_Witness ==
    /\ Len(flight) = 3
    /\ \A i \in 1..3 : /\ flight[i].pc = "done" /\ flight[i].op = "tap_order"
                       /\ flight[i].req = K1 /\ flight[i].ts_utc = T0630
    /\ flight[1].id > flight[2].id
    /\ flight[1].id > flight[3].id
    /\ Cardinality(events) = 4


----------------------------------------------------------------------------
(* Taps outside the shift *)

MaxRowsShift == 2

MaxIdShift == 2

\* 06:30, the last minute of the shift, its end, and 06:30 of the next day
ClockShift == {T0630, T1859, T1900, D1_0630}

\* the day starts at 04:30, before the shift
InitShift == InitAt(T0430, T_secret)

NextShift ==
    \/ Tick(ClockShift)
    \/ \E k \in {K1, K3} : tap_order(k) /\ StoreWithin(MaxRowsShift, MaxIdShift)
    \/ tap_reason(K1, T_Break) /\ StoreWithin(MaxRowsShift, MaxIdShift)
    \/ home(K1)
    \/ \E station \in {T_BTEn1, T_BTEn2} : dashboard(station)

SpecShift == InitShift /\ [][NextShift]_vars

----------------------------------------------------------------------------
(* C22 *)

\* the local time of row x is in [start_local, end_local) of today's shift
LocalInShift(x) ==
    /\ shift_bounds_local(Today)[1] <= LocalFromUtc(x.ts_utc)
    /\ LocalFromUtc(x.ts_utc) < shift_bounds_local(Today)[2]

\* a tap answered with ok, whose row is in its table with the instant of the tap
TapStored ==
    /\ last.op \in {"tap_order", "tap_reason"} /\ last.status = "ok"
    /\ \E x \in events \cup reasons : OfKey(x, last.req) /\ x.ts_utc = now

\* every total of the dashboard is 0
RECURSIVE NoTotals(_, _)
NoTotals(totals, n) == n = 0 \/ (totals[n][2] = 0 /\ NoTotals(totals, n - 1))

\* C22: the rows whose local time is outside [start_local, end_local) of
\* today's shift count nowhere: today_rows_for of every key, station_details
\* of every station and station_totals are what they are on the tables
\* without those rows, and they are all zero or empty when the tables hold
\* no other row; the index of the bucket of a row inside the shift is in
\* 0..(number of buckets - 1), and hour_index is -1 for the rows outside.
C22_OutsideShiftNotCounted ==
    \A in_e \in {{e \in events : LocalInShift(e)}} :
    \A in_r \in {{r \in reasons : LocalInShift(r)}} :
        /\ \A k \in KnownKeys : \A rows \in {Rows(k)} :
              /\ rows = today_rows_for(in_e, in_r, now, k.station, k.role, k.stamp).rows
              /\ (in_e = {} /\ in_r = {}) =>
                    \A i \in 1..NBuckets : \A col \in 2..6 : rows[i][col] = 0
        /\ \A station \in {T_BTEn1, T_BTEn2} :
           \A details \in {station_details(events, reasons, now, station)} :
              /\ details = station_details(in_e, in_r, now, station)
              /\ (in_e = {} /\ in_r = {}) =>
                    \A i \in 1..NBuckets : details[i].rows = <<>>
        /\ \A totals \in {station_totals(events, now)} :
              /\ totals = station_totals(in_e, now)
              /\ (in_e = {} /\ in_r = {}) => NoTotals(totals, Len(STATIONS))
        /\ \A x \in in_e \cup in_r :
              /\ BucketIndex(LocalFromUtc(x.ts_utc), shift_bounds_local(Today)[1])
                    \in 0..(NBuckets - 1)
              /\ hour_index(x.ts_utc, shift_bounds_local(Today)[1],
                            shift_bounds_local(Today)[2]) \in 0..(NBuckets - 1)
        /\ \A x \in (events \ in_e) \cup (reasons \ in_r) :
              hour_index(x.ts_utc, shift_bounds_local(Today)[1],
                         shift_bounds_local(Today)[2]) = -1

\* at 19:00, the end of the shift, an order of K1 was tapped and stored; the
\* table has it and an order tapped at 04:30, and they count nowhere
C22_Witness ==
    /\ now = T1900
    /\ TapStored
    /\ last.req = K1
    /\ {e.ts_utc : e \in events} = {T0430, T1900}
    /\ \A i \in 1..NBuckets : Rows(K1)[i][ColOrders] = 0
    /\ NoTotals(station_totals(events, now), Len(STATIONS))

\* on the next day the order tapped at 06:30 of the day before counts nowhere
C22_WitnessNextDay ==
    /\ now = D1_0630
    /\ last.op = "dashboard"
    /\ {e.ts_utc : e \in events} = {T0630}
    /\ NoTotals(station_totals(events, now), Len(STATIONS))


----------------------------------------------------------------------------
(* All routes together *)

MaxRowsFrame == 2

MaxIdFrame == 2

ClockFrame == {T0910}

FormsFrame ==
    {FormK1(kind, action, <<"1">>, <<"1">>) :
        kind \in {T_order, T_reasonBreak}, action \in {T_add, T_remove}}

InitFrame == InitAt(T0630, T_secret)

NextFrame ==
    \/ Tick(ClockFrame)
    \/ home(K1)
    \/ tap_order(K1) /\ StoreWithin(MaxRowsFrame, MaxIdFrame)
    \/ tap_reject(K1) /\ StoreWithin(MaxRowsFrame, MaxIdFrame)
    \/ tap_muda(K1) /\ StoreWithin(MaxRowsFrame, MaxIdFrame)
    \/ tap_reason(K1, T_Break) /\ StoreWithin(MaxRowsFrame, MaxIdFrame)
    \/ dashboard(T_BTEn1)
    \/ export_today_csv
    \/ export_station_totals_csv
    \/ login("POST", T_secret)
    \/ logout
    \/ panel
    \/ \E f \in FormsFrame : adjust_hour(f) /\ StoreWithin(MaxRowsFrame, MaxIdFrame)

SpecFrame == InitFrame /\ [][NextFrame]_vars

----------------------------------------------------------------------------
(* C23 *)

\* the routes that only read the tables
ReadOps ==
    {"home", "dashboard", "export_today_csv", "export_station_totals_csv",
     "login", "logout", "panel"}

TapOps == {"tap_order", "tap_reject", "tap_muda", "tap_reason"}

\* no row of the table before has another value after under the same id
RowsKeepValues(before, after) ==
    \A x \in after : (\E y \in before : y.id = x.id) => x \in before

\* C23: a step of a route that only reads (the home page with
\* today_rows_for, the dashboard, the two exports, the pages of the panel)
\* leaves both tables as they were; no step of any route changes a field of
\* a row that stays; a step that removes a row is a remove of the manager's
\* correction, under a valid token; a tap removes nothing and adds at most
\* its own row.
C23_ReadsAndImmutability ==
    [][ /\ (now' = now /\ last'.op \in ReadOps) =>
              events' = events /\ reasons' = reasons
        /\ RowsKeepValues(events, events')
        /\ RowsKeepValues(reasons, reasons')
        /\ (~(events \subseteq events') \/ ~(reasons \subseteq reasons')) =>
              /\ last'.op = "adjust_hour"
              /\ last'.status = "panel"
              /\ Strip(last'.req.action) = T_remove
              /\ TokenValid
        /\ (now' = now /\ last'.op \in TapOps) =>
              /\ events \subseteq events' /\ reasons \subseteq reasons'
              /\ Cardinality(events' \ events) + Cardinality(reasons' \ reasons) <= 1
      ]_vars

\* the dashboard was read at 09:10 with two rows in the tables, an order
\* tapped at 06:30 and one that a correction added
C23_Witness ==
    /\ last.op = "dashboard"
    /\ now = T0910
    /\ Cardinality(events) = 2
    /\ \E e \in events : e.ts_utc = T0630
    /\ \E e \in events : LocalFromUtc(e.ts_utc) = BucketLo(Today, 2) + 1


----------------------------------------------------------------------------
(* The operator's table and the dashboard's detail side by side *)

MaxRowsAgree == 2

MaxIdAgree == 2

ClockAgree == {T0910, T1900}

NextAgree ==
    \/ Tick(ClockAgree)
    \/ \E k \in {K1, K3, KVer2} :
          tap_order(k) /\ StoreWithin(MaxRowsAgree, MaxIdAgree)
    \/ tap_muda(K1) /\ StoreWithin(MaxRowsAgree, MaxIdAgree)
    \/ tap_reason(K1, T_Break) /\ StoreWithin(MaxRowsAgree, MaxIdAgree)
    \/ login("POST", T_secret)
    \/ /\ adjust_hour(FormK1(T_reasonLunch, T_add, <<"1">>, <<"3">>))
       /\ StoreWithin(MaxRowsAgree, MaxIdAgree)
    \/ dashboard(T_BTEn1)

SpecAgree == InitShift /\ [][NextAgree]_vars

----------------------------------------------------------------------------
(* C24 *)

\* the (role, stamp) pairs looked at: those of the rows in the tables and
\* one that no row has
PeopleAgree ==
    {<<x.role, x.stamp>> : x \in events \cup reasons} \cup {<<K2.role, K2.stamp>>}

\* the rows of station s, role r, stamp p whose local time is in bucket i of
\* today
InBucketOf(s, r, p, i) ==
    {x \in events \cup reasons :
        /\ x.station = s /\ x.role = r /\ x.stamp = p
        /\ InBucket(x, Today, i)}

\* the positions in the rows of one hour of the detail that show stamp p
\* with role r
DetailHits(group, r, p) ==
    {j \in 1..Len(group.rows) : group.rows[j].stamp = p /\ group.rows[j].role = r}

\* C24: in every state of the tables, for every station s, role r, stamp p
\* and bucket i: when a row of (s, r, p) lies in bucket i, group i of
\* station_details(s) has exactly one row for (p, r), and its orders,
\* exceptions, bathroom, break and system-slow counts are those of row i of
\* today_rows_for(s, r, p); when none does, the group has no row for (p, r)
\* and row i of today_rows_for(s, r, p) is all zero.
C24_AggregationsAgree ==
    \A s \in {T_BTEn1, T_BTEn2} :
    \A details \in {station_details(events, reasons, now, s)} :
        /\ Len(details) = NBuckets
        /\ \A rp \in PeopleAgree :
           \A rows \in {today_rows_for(events, reasons, now, s, rp[1], rp[2]).rows} :
              /\ Len(rows) = NBuckets
              /\ \A i \in 1..NBuckets :
                 \A hits \in {DetailHits(details[i], rp[1], rp[2])} :
                    IF InBucketOf(s, rp[1], rp[2], i) # {}
                    THEN /\ Cardinality(hits) = 1
                         /\ \A j \in hits :
                            \A d \in {details[i].rows[j]} :
                               /\ d.orders = rows[i][ColOrders]
                               /\ d.ex = rows[i][ColExceptions]
                               /\ d.bth = rows[i][ColBathroom]
                               /\ d.brk = rows[i][ColBreak]
                               /\ d.sys = rows[i][ColSystemSlow]
                    ELSE /\ hits = {}
                         /\ \A col \in {ColOrders, ColExceptions, ColBathroom,
                                        ColBreak, ColSystemSlow} :
                               rows[i][col] = 0

\* the dashboard of BT-En1 was read at 09:10 with a muda of stamp 1234
\* tapped at 09:10 and a reason that is no column added to the hour from
\* 08:00: the group of 09:00 shows the one exception, the group of 08:00 a
\* row of zeros
C24_Witness ==
    /\ last.op = "dashboard"
    /\ last.req.station = T_BTEn1
    /\ now = T0910
    /\ \E e \in events : e.kind = T_muda /\ e.ts_utc = T0910
    /\ \E r \in reasons : r.reason = T_Lunch /\ InBucket(r, Today, 4)
    /\ \A details \in {station_details(events, reasons, now, T_BTEn1)} :
          /\ Len(details[5].rows) = 1
          /\ details[5].rows[1].ex = 1
          /\ Len(details[4].rows) = 1
          /\ details[4].rows[1].ex = 0
          /\ details[4].rows[1].orders = 0
    /\ Rows(K1)[5][ColExceptions] = 1

\* two orders of one key in one hour are one row with the count two
C24_WitnessSameHour ==
    /\ now = T0910
    /\ Cardinality({e \in events : KeyOf(e) = K1 /\ InBucket(e, Today, 5)}) = 2
    /\ Rows(K1)[5][ColOrders] = 2
    /\ \A details \in {station_details(events, reasons, now, T_BTEn1)} :
          Len(details[5].rows) = 1 /\ details[5].rows[1].orders = 2


====
